---------------------------- MODULE Spec2Model ----------------------------
(***************************************************************************)
(* A model of the real-estate search agent of agents/search_agent.py:      *)
(* the intent parser (parse_query, SearchIntent.from_dict,                 *)
(* _fallback_parse_query), the intent filter (_filter_listings_by_intent), *)
(* the deduplicator (_deduplicate_listings), the two direct platform       *)
(* scrapers and the search orchestrator (search,                           *)
(* _fallback_direct_scrape).                                               *)
(*                                                                         *)
(* Python values are modelled as follows.                                  *)
(*   str            a TLA+ string; characters are read with SubSeq         *)
(*   Optional[x]    a sequence of length at most one: <<>> is None         *)
(*   list           a sequence                                             *)
(*   dict (listing) a record with the keys the scrapers write              *)
(*   an exception   a record field  raised = TRUE  of the result           *)
(* Amounts of money are counted in millions of VND, so that                *)
(* 1 tỷ is 1000 and fits the model checker's integers.                     *)
(* The parser of this module reads no letter of the Latin Extended-A       *)
(* block: the letters d-with-stroke and a-with-breve of the source's       *)
(* strings are written ð, Ð and ǎ, Ǎ throughout.                           *)
(***************************************************************************)
EXTENDS Integers, Sequences, FiniteSets, TLC

VARIABLES
    \* _deduplicate_listings: one run of the loop
    dd_pc, dd_in, dd_i, dd_seen_urls, dd_seen_titles, dd_unique, dd_kept, dd_first,
    \* _filter_listings_by_intent: one run of the loop
    fl_pc, fl_intent, fl_in, fl_i, fl_filtered,
    \* parse_query: one call
    pq_pc, pq_query, pq_llm, pq_content, pq_exc, pq_source, pq_result,
    \* search: its arguments, its position, the browser, and the SearchResult
    se_pc, se_query, se_max_results, se_platforms, se_intent_arg, se_intent,
    se_browser, se_page_open, se_i, se_pending, se_all_listings,
    se_listings, se_total_found, se_sources_searched, se_errors,
    \* what happened during the search: the failures and the scrapes
    se_failures, se_scrapes,
    \* one call of _normalize_vietnamese_number or _parse_price_to_number
    nm_pc, nm_fn, nm_text, nm_result,
    \* one call of _fallback_parse_query
    fb_pc, fb_query, fb_result,
    \* one call of _safe_parse_json
    sj_pc, sj_text, sj_result,
    \* the rate limiter: the clock, self.request_times, each caller's position
    \* and the end of its sleep, and the times at which calls returned
    rl_now, rl_request_times, rl_pc, rl_wake, rl_released,
    \* search_with_progress: its position, its arguments and the percents
    \* its callback was called with
    wp_pc, wp_query, wp_callback, wp_max_results, wp_platforms, wp_events

ddVars == <<dd_pc, dd_in, dd_i, dd_seen_urls, dd_seen_titles, dd_unique, dd_kept, dd_first>>

flVars == <<fl_pc, fl_intent, fl_in, fl_i, fl_filtered>>

pqVars == <<pq_pc, pq_query, pq_llm, pq_content, pq_exc, pq_source, pq_result>>

seVars ==
    <<se_pc, se_query, se_max_results, se_platforms, se_intent_arg, se_intent,
      se_browser, se_page_open, se_i, se_pending, se_all_listings,
      se_listings, se_total_found, se_sources_searched, se_errors,
      se_failures, se_scrapes>>

nmVars == <<nm_pc, nm_fn, nm_text, nm_result>>

fbVars == <<fb_pc, fb_query, fb_result>>

sjVars == <<sj_pc, sj_text, sj_result>>

rlVars == <<rl_now, rl_request_times, rl_pc, rl_wake, rl_released>>

\* the calls of the functions that are checked on their own
wpVars == <<wp_pc, wp_query, wp_callback, wp_max_results, wp_platforms, wp_events>>

fnVars == <<nmVars, fbVars, sjVars, rlVars, wpVars>>

vars == <<ddVars, flVars, pqVars, seVars, fnVars>>

\* the variables a component leaves alone
ddRest == <<flVars, pqVars, seVars, fnVars>>

flRest == <<ddVars, pqVars, seVars, fnVars>>

pqRest == <<ddVars, flVars, seVars, fnVars>>

seRest == <<ddVars, flVars, fnVars>>

nmRest == <<ddVars, flVars, pqVars, seVars, fbVars, sjVars, rlVars, wpVars>>

fbRest == <<ddVars, flVars, pqVars, seVars, nmVars, sjVars, rlVars, wpVars>>

sjRest == <<ddVars, flVars, pqVars, seVars, nmVars, fbVars, rlVars, wpVars>>

rlRest == <<ddVars, flVars, pqVars, seVars, nmVars, fbVars, sjVars, wpVars>>

\* search and parse_query run inside search_with_progress
wpRest == <<ddVars, flVars, nmVars, fbVars, sjVars, rlVars>>

-----------------------------------------------------------------------------
(* Python's None and Optional values *)

None == <<>>

Some(x) == <<x>>

\* bool(x) of an Optional[str]: None and "" are false
TruthyStr(o) == o # None /\ o[1] # ""

\* bool(x) of an Optional[int]: None and 0 are false
TruthyInt(o) == o # None /\ o[1] # 0

-----------------------------------------------------------------------------
(* A component that a specification does not run stays in its idle state. *)

ddIdle ==
    /\ dd_pc = "idle"
    /\ dd_in = <<>>
    /\ dd_i = 1
    /\ dd_seen_urls = {}
    /\ dd_seen_titles = {}
    /\ dd_unique = <<>>
    /\ dd_kept = <<>>
    /\ dd_first = None

flIdle ==
    /\ fl_pc = "idle"
    /\ fl_intent = None
    /\ fl_in = <<>>
    /\ fl_i = 1
    /\ fl_filtered = <<>>

pqIdle ==
    /\ pq_pc = "idle"
    /\ pq_query = ""
    /\ pq_llm = ""
    /\ pq_content = None
    /\ pq_exc = None
    /\ pq_source = ""
    /\ pq_result = None

seIdle ==
    /\ se_pc = "idle"
    /\ se_query = ""
    /\ se_max_results = 0
    /\ se_platforms = None
    /\ se_intent_arg = None
    /\ se_intent = None
    /\ se_browser = "none"
    /\ se_page_open = FALSE
    /\ se_i = 0
    /\ se_pending = None
    /\ se_all_listings = <<>>
    /\ se_listings = <<>>
    /\ se_total_found = 0
    /\ se_sources_searched = <<>>
    /\ se_errors = <<>>
    /\ se_failures = <<>>
    /\ se_scrapes = <<>>

nmIdle == nm_pc = "idle" /\ nm_fn = "" /\ nm_text = "" /\ nm_result = None

fbIdle == fb_pc = "idle" /\ fb_query = "" /\ fb_result = None

sjIdle == sj_pc = "idle" /\ sj_text = <<>> /\ sj_result = None

rlIdle ==
    /\ rl_now = 0
    /\ rl_request_times = <<>>
    /\ rl_pc = <<>>
    /\ rl_wake = <<>>
    /\ rl_released = <<>>

wpIdle ==
    /\ wp_pc = "idle"
    /\ wp_query = ""
    /\ wp_callback = FALSE
    /\ wp_max_results = 0
    /\ wp_platforms = None
    /\ wp_events = <<>>

fnIdle == nmIdle /\ fbIdle /\ sjIdle /\ rlIdle /\ wpIdle

ddRestIdle == flIdle /\ pqIdle /\ seIdle /\ fnIdle

flRestIdle == ddIdle /\ pqIdle /\ seIdle /\ fnIdle

pqRestIdle == ddIdle /\ flIdle /\ seIdle /\ fnIdle

seRestIdle == ddIdle /\ flIdle /\ fnIdle

nmRestIdle == ddIdle /\ flIdle /\ pqIdle /\ seIdle /\ fbIdle /\ sjIdle /\ rlIdle /\ wpIdle

fbRestIdle == ddIdle /\ flIdle /\ pqIdle /\ seIdle /\ nmIdle /\ sjIdle /\ rlIdle /\ wpIdle

sjRestIdle == ddIdle /\ flIdle /\ pqIdle /\ seIdle /\ nmIdle /\ fbIdle /\ rlIdle /\ wpIdle

rlRestIdle == ddIdle /\ flIdle /\ pqIdle /\ seIdle /\ nmIdle /\ fbIdle /\ sjIdle /\ wpIdle

wpRestIdle == ddIdle /\ flIdle /\ pqIdle /\ seIdle /\ nmIdle /\ fbIdle /\ sjIdle /\ rlIdle

-----------------------------------------------------------------------------
(* Strings *)

Ch(s, i) == SubSeq(s, i, i)

UpperChars == "ABCDEFGHIJKLMNOPQRSTUVWXYZÁÍÔÐẠẢẤẬẾỆỈỌỤỨÂÀǍÊƠƯỶỎÒ"

LowerChars == "abcdefghijklmnopqrstuvwxyzáíôðạảấậếệỉọụứâàǎêơưỷỏò"

\* the upper-case letters of the model's strings, each with its lower-case letter
LowerMap == [c \in {Ch(UpperChars, i) : i \in 1..Len(UpperChars)} |->
                Ch(LowerChars, CHOOSE i \in 1..Len(UpperChars) : Ch(UpperChars, i) = c)]

\* str.lower() of one character
LowerChar(c) == IF c \in DOMAIN LowerMap THEN LowerMap[c] ELSE c

RECURSIVE Lower(_)
\* str.lower()
Lower(s) == IF s = "" THEN "" ELSE LowerChar(Head(s)) \o Lower(Tail(s))

IsSpace(c) == c \in {" ", "\t", "\n", "\r"}

RECURSIVE LStrip(_)
LStrip(s) == IF s # "" /\ IsSpace(Head(s)) THEN LStrip(Tail(s)) ELSE s

RECURSIVE RStrip(_)
RStrip(s) ==
    IF s # "" /\ IsSpace(Ch(s, Len(s))) THEN RStrip(SubSeq(s, 1, Len(s) - 1)) ELSE s

\* str.strip()
Strip(s) == RStrip(LStrip(s))

\* s[:n]
Prefix(s, n) == IF Len(s) <= n THEN s ELSE SubSeq(s, 1, n)

\* s.startswith(t)
StartsWith(s, t) == Len(t) <= Len(s) /\ SubSeq(s, 1, Len(t)) = t

\* t in s
Contains(s, t) ==
    \E i \in 1..(Len(s) - Len(t) + 1) : SubSeq(s, i, i + Len(t) - 1) = t

RECURSIVE Remove(_, _)
\* s.replace(t, ""), for a non-empty t: occurrences are removed left to right
Remove(s, t) ==
    IF Len(s) < Len(t) THEN s
    ELSE IF StartsWith(s, t) THEN Remove(SubSeq(s, Len(t) + 1, Len(s)), t)
    ELSE Head(s) \o Remove(Tail(s), t)

-----------------------------------------------------------------------------
(* Listings: the dicts the scrapers build (search_agent.py 1096-1106 and   *)
(* 1328-1338).  The key 'url' is written by no scraper; it is read by the  *)
(* deduplicator and is None for every listing of this program.             *)

Listing(title, price_text, price_number, area_m2, bedrooms, address, district, city, phone, source_url, source_platform) ==
    [title |-> title, price_text |-> price_text, price_number |-> price_number,
     area_m2 |-> area_m2, bedrooms |-> bedrooms,
     location |-> [address |-> address, district |-> district, city |-> city],
     contact |-> [phone_clean |-> phone],
     url |-> None, source_url |-> source_url, source_platform |-> source_platform]

-----------------------------------------------------------------------------
(* _deduplicate_listings *)

TitlePrefixLen == 50

\* listing.get('url') or listing.get('source_url', '')
DedupUrl(listing) ==
    IF TruthyStr(listing.url) THEN listing.url[1] ELSE listing.source_url

\* listing.get('title', '').lower().strip()[:50]
DedupTitle(listing) == Prefix(Strip(Lower(listing.title)), TitlePrefixLen)

\* url_key = url if url else None
UrlKey(listing) == IF DedupUrl(listing) # "" THEN Some(DedupUrl(listing)) ELSE None

\* title_key = title if title else None
TitleKey(listing) == IF DedupTitle(listing) # "" THEN Some(DedupTitle(listing)) ELSE None

\* is_dup with the title test left out
IsDupUrlOnly(st, listing) ==
    UrlKey(listing) # None /\ UrlKey(listing)[1] \in st.seen_urls

\* is_dup with the URL test left out
IsDupTitleOnly(st, listing) ==
    TitleKey(listing) # None /\ TitleKey(listing)[1] \in st.seen_titles

\* is_dup, as the two ifs of the loop body set it
IsDup(st, listing) ==
    \/ (UrlKey(listing) # None /\ UrlKey(listing)[1] \in st.seen_urls)
    \/ (TitleKey(listing) # None /\ TitleKey(listing)[1] \in st.seen_titles)

\* the elements of an Optional, as a set
OptSet(o) == {o[i] : i \in 1..Len(o)}

\* the loop body with the kept listing put in front of the list
DedupStepPrepend(st, listing) ==
    IF ~IsDup(st, listing)
    THEN [seen_urls |-> st.seen_urls \cup OptSet(UrlKey(listing)),
          seen_titles |-> st.seen_titles \cup OptSet(TitleKey(listing)),
          unique |-> <<listing>> \o st.unique]
    ELSE st

\* one iteration of the loop over listings
DedupStep(st, listing) ==
    IF ~IsDup(st, listing)
    THEN [seen_urls |-> st.seen_urls \cup OptSet(UrlKey(listing)),
          seen_titles |-> st.seen_titles \cup OptSet(TitleKey(listing)),
          unique |-> Append(st.unique, listing)]
    ELSE st

DedupStart == [seen_urls |-> {}, seen_titles |-> {}, unique |-> <<>>]

RECURSIVE DedupLoop(_, _)
DedupLoop(st, listings) ==
    IF listings = <<>> THEN st
    ELSE DedupLoop(DedupStep(st, Head(listings)), Tail(listings))

\* _deduplicate_listings(listings)
DeduplicateListings(listings) == DedupLoop(DedupStart, listings).unique

-----------------------------------------------------------------------------
(* SearchIntent (search_agent.py 43-61).  Its fields hold what the JSON of *)
(* the language model or the regex fallback put there.                     *)

\* SearchIntent(): the dataclass defaults
DefaultIntent ==
    [property_type |-> None, city |-> Some("Hà Nội"), district |-> None,
     ward |-> None, street |-> None, price_min |-> None, price_max |-> None,
     price_text |-> None, area_min |-> None, area_max |-> None,
     bedrooms |-> None, bathrooms |-> None, features |-> Some(<<>>),
     keywords |-> Some(<<>>), requirements |-> Some(<<>>), intent |-> Some("mua")]

-----------------------------------------------------------------------------
(* _filter_listings_by_intent.  price_max * 1.1 and price_min * 0.9 are    *)
(* compared exactly, as 11/10 and 9/10 of the amount.                      *)

\* any(v in c for v in variants)
ContainsAny(c, variants) == \E k \in 1..Len(variants) : Contains(c, variants[k])

hn_variants == <<"hà nội", "ha noi", "hn">>

hcm_variants == <<"hồ chí minh", "ho chi minh", "hcm", "sài gòn", "sai gon", "tp.hcm">>

\* 1. Price Check: the listing is rejected on its price
RejectPrice(listing, intent) ==
    /\ TruthyInt(listing.price_number)
    /\ \/ (TruthyInt(intent.price_max) /\ 10 * listing.price_number[1] > 11 * intent.price_max[1])
       \/ (TruthyInt(intent.price_min) /\ 10 * listing.price_number[1] < 9 * intent.price_min[1])

\* City Mismatch: the fast path accepts equal names, then the HN/HCM variants decide
RejectCity(listing, intent) ==
    /\ TruthyStr(intent.city)
    /\ listing.location.city # ""
    /\ Lower(intent.city[1]) # Lower(listing.location.city)
    /\ LET c1 == Lower(intent.city[1])
           c2 == Lower(listing.location.city)
           is_hn_1 == ContainsAny(c1, hn_variants)
           is_hn_2 == ContainsAny(c2, hn_variants)
           is_hcm_1 == ContainsAny(c1, hcm_variants)
           is_hcm_2 == ContainsAny(c2, hcm_variants)
       IN  (is_hn_1 /\ is_hcm_2) \/ (is_hcm_1 /\ is_hn_2)

\* d.lower().replace("quận", "").replace("huyện", "").strip()
DistrictCore(d) == Strip(Remove(Remove(Lower(d), "quận"), "huyện"))

\* District Mismatch
RejectDistrict(listing, intent) ==
    /\ TruthyStr(intent.district)
    /\ TruthyStr(listing.location.district)
    /\ LET d1 == DistrictCore(intent.district[1])
           d2 == DistrictCore(listing.location.district[1])
       IN  ~Contains(d2, d1) /\ ~Contains(d1, d2)

\* Strict District Check for Missing Data
RejectMissingDistrict(listing, intent) ==
    TruthyStr(intent.district) /\ ~TruthyStr(listing.location.district)

\* the bedroom check without its rejection of a missing count
RejectBedroomsKeepsMissing(listing, intent) ==
    /\ TruthyInt(intent.bedrooms)
    /\ listing.bedrooms # None
    /\ listing.bedrooms[1] # intent.bedrooms[1]

\* Strict Bedroom Check for Missing Data (the scrapers store an int or None,
\* so int(l_bedrooms) never raises)
RejectBedrooms(listing, intent) ==
    /\ TruthyInt(intent.bedrooms)
    /\ \/ listing.bedrooms = None
       \/ listing.bedrooms[1] # intent.bedrooms[1]

apartment_keywords == <<"chung cư", "cǎn hộ", "tập thể", "apartment", "condo">>

land_keywords == <<"ðất", "thổ cư", "lô">>

\* 5. Strict Property Type Check
RejectPropertyType(listing, intent) ==
    /\ TruthyStr(intent.property_type)
    /\ LET pt_lower == Lower(intent.property_type[1])
           title_lower == Lower(listing.title)
       IN  IF Contains(pt_lower, "chung cư") \/ Contains(pt_lower, "cǎn hộ")
           THEN ~ContainsAny(title_lower, apartment_keywords)
           ELSE IF Contains(pt_lower, "ðất")
           THEN ~ContainsAny(title_lower, land_keywords)
           ELSE FALSE

\* the loop body without the strict missing-district check
FilterRejectsLenient(listing, intent) ==
    \/ RejectPrice(listing, intent)
    \/ RejectCity(listing, intent)
    \/ RejectDistrict(listing, intent)
    \/ RejectBedrooms(listing, intent)
    \/ RejectPropertyType(listing, intent)

\* the loop body reaches a continue
FilterRejects(listing, intent) ==
    \/ RejectPrice(listing, intent)
    \/ RejectCity(listing, intent)
    \/ RejectDistrict(listing, intent)
    \/ RejectMissingDistrict(listing, intent)
    \/ RejectBedrooms(listing, intent)
    \/ RejectPropertyType(listing, intent)

\* one iteration: filtered.append(listing) unless a check rejected it
FilterStep(filtered, listing, intent) ==
    IF FilterRejects(listing, intent) THEN filtered ELSE Append(filtered, listing)

RECURSIVE FilterLoop(_, _, _)
FilterLoop(filtered, listings, intent) ==
    IF listings = <<>> THEN filtered
    ELSE FilterLoop(FilterStep(filtered, Head(listings), intent), Tail(listings), intent)

\* _filter_listings_by_intent(listings, intent)
FilterListingsByIntent(listings, intent) == FilterLoop(<<>>, listings, intent)

-----------------------------------------------------------------------------
(* Regular expressions of the fallback parser, matched as re.search does:  *)
(* at the leftmost position where the pattern matches.                     *)

Digits == "0123456789"

IsDigit(c) == c # "" /\ Contains(Digits, c)

DigitVal(c) == (CHOOSE i \in 1..10 : Ch(Digits, i) = c) - 1

RECURSIVE ParseInt(_)
\* int(s) of a string of digits
ParseInt(s) ==
    IF s = "" THEN 0 ELSE 10 * ParseInt(SubSeq(s, 1, Len(s) - 1)) + DigitVal(Ch(s, Len(s)))

RECURSIVE DigitsEnd(_, _)
\* \d+ from position i: the position after the run of digits
DigitsEnd(s, i) == IF i <= Len(s) /\ IsDigit(Ch(s, i)) THEN DigitsEnd(s, i + 1) ELSE i

RECURSIVE SpacesEnd(_, _)
\* \s* from position i: the position after the run of white space
SpacesEnd(s, i) == IF i <= Len(s) /\ IsSpace(Ch(s, i)) THEN SpacesEnd(s, i + 1) ELSE i

\* the text t stands in s at position i
At(s, i, t) == i >= 1 /\ i + Len(t) - 1 <= Len(s) /\ SubSeq(s, i, i + Len(t) - 1) = t

\* \d+(?:\.\d+)? from position i: the position after the numeral (i if none)
NumeralEnd(s, i) ==
    LET e == DigitsEnd(s, i)
    IN  IF e > i /\ At(s, e, ".") /\ DigitsEnd(s, e + 1) > e + 1
        THEN DigitsEnd(s, e + 1) ELSE e

\* the least position of a set of positions, as an Optional
FirstPos(S) == IF S = {} THEN None ELSE Some(CHOOSE i \in S : \A j \in S : i <= j)

\* (\d+)\s*(pn|phòng ngủ|phong ngu|pn) at position i
BedroomAt(s, i) ==
    /\ DigitsEnd(s, i) > i
    /\ LET k == SpacesEnd(s, DigitsEnd(s, i))
       IN  At(s, k, "pn") \/ At(s, k, "phòng ngủ") \/ At(s, k, "phong ngu")

\* (\d+(?:\.\d+)?)\s*-\s*(\d+(?:\.\d+)?)\s*tỷ at position i
PriceRangeAt(s, i) ==
    /\ NumeralEnd(s, i) > i
    /\ LET d == SpacesEnd(s, NumeralEnd(s, i))
           b == SpacesEnd(s, d + 1)
       IN  /\ At(s, d, "-")
           /\ NumeralEnd(s, b) > b
           /\ At(s, SpacesEnd(s, NumeralEnd(s, b)), "tỷ")

\* dưới\s*(\d+(?:\.\d+)?)\s*tỷ at position i
UnderAt(s, i) ==
    /\ At(s, i, "dưới")
    /\ LET b == SpacesEnd(s, i + 4)
       IN  /\ NumeralEnd(s, b) > b
           /\ At(s, SpacesEnd(s, NumeralEnd(s, b)), "tỷ")

Billion == 1000

\* the digits after the point as thousandths, for at most three digits
Thousandths(frac) ==
    IF Len(frac) = 1 THEN 100 * ParseInt(frac)
    ELSE IF Len(frac) = 2 THEN 10 * ParseInt(frac)
    ELSE ParseInt(SubSeq(frac, 1, 3))

\* the numerals of the runs whose binary product with 1_000_000_000 lies
\* just below the decimal one: int(float("4.1") * 1_000_000_000) is
\* 4099999999
TruncatedShort == {"4.1", "2.01"}

\* int(float(numeral) * 1_000_000_000), in millions of VND rounded down; but
\* for the numerals above, the product is exact for the numerals of the
\* runs (at most two decimals, below 128)
NumeralToAmount(numeral) ==
    LET e == DigitsEnd(numeral, 1)
        exact == IF e > Len(numeral) THEN ParseInt(numeral) * Billion
                 ELSE ParseInt(SubSeq(numeral, 1, e - 1)) * Billion
                      + Thousandths(SubSeq(numeral, e + 1, Len(numeral)))
    IN  IF numeral \in TruncatedShort THEN exact - 1 ELSE exact

-----------------------------------------------------------------------------
(* _fallback_parse_query *)

\* ptype_map, its keys in the order of sorted(ptype_map.keys(), key=len, reverse=True)
ptype_map_sorted ==
    <<<<"nha mat pho", "nhà mặt phố">>, <<"nhà mặt phố", "nhà mặt phố">>,
      <<"dat tho cu", "ðất nền">>, <<"nha rieng", "nhà riêng">>, <<"nhà riêng", "nhà riêng">>,
      <<"shophouse", "nhà mặt phố">>, <<"chung cu", "chung cư">>, <<"chung cư", "chung cư">>,
      <<"biet thu", "biệt thự">>, <<"biệt thự", "biệt thự">>, <<"nha dat", "nhà riêng">>,
      <<"dat nen", "ðất nền">>, <<"ðất nền", "ðất nền">>, <<"can ho", "chung cư">>,
      <<"cǎn hộ", "chung cư">>, <<"villa", "biệt thự">>>>

\* landmark_map, in the order of its items()
landmark_map ==
    <<<<"hồ tây", "Tây Hồ">>, <<"ho tay", "Tây Hồ">>, <<"phố cổ", "Hoàn Kiếm">>,
      <<"hồ gươm", "Hoàn Kiếm">>, <<"bờ hồ", "Hoàn Kiếm">>, <<"royal city", "Thanh Xuân">>,
      <<"times city", "Hai Bà Trưng">>, <<"ecopark", "Vǎn Giang">>,
      <<"ocean park", "Gia Lâm">>, <<"smart city", "Nam Từ Liêm">>>>

\* district_map, its keys in the order of sorted(district_map.keys(), key=len, reverse=True)
district_map_sorted ==
    <<<<"hai ba trung", "Hai Bà Trưng">>, <<"hai bà trưng", "Hai Bà Trưng">>,
      <<"nam tu liem", "Nam Từ Liêm">>, <<"nam từ liêm", "Nam Từ Liêm">>,
      <<"bac tu liem", "Bắc Từ Liêm">>, <<"bắc từ liêm", "Bắc Từ Liêm">>,
      <<"thanh xuan", "Thanh Xuân">>, <<"thanh xuân", "Thanh Xuân">>,
      <<"thach that", "Thạch Thất">>, <<"thạch thất", "Thạch Thất">>,
      <<"thuong tin", "Thường Tín">>, <<"thường tín", "Thường Tín">>,
      <<"dan phuong", "Ðan Phượng">>, <<"ðan phượng", "Ðan Phượng">>,
      <<"hoan kiem", "Hoàn Kiếm">>, <<"hoàn kiếm", "Hoàn Kiếm">>, <<"hoang mai", "Hoàng Mai">>,
      <<"hoàng mai", "Hoàng Mai">>, <<"long bien", "Long Biên">>, <<"long biên", "Long Biên">>,
      <<"thanh tri", "Thanh Trì">>, <<"thanh trì", "Thanh Trì">>, <<"thanh oai", "Thanh Oai">>,
      <<"chuong my", "Chương Mỹ">>, <<"chương mỹ", "Chương Mỹ">>, <<"phu xuyen", "Phú Xuyên">>,
      <<"phú xuyên", "Phú Xuyên">>, <<"cau giay", "Cầu Giấy">>, <<"cầu giấy", "Cầu Giấy">>,
      <<"phuc tho", "Phúc Thọ">>, <<"phúc thọ", "Phúc Thọ">>, <<"dong anh", "Ðông Anh">>,
      <<"ðông anh", "Ðông Anh">>, <<"hoai duc", "Hoài Ðức">>, <<"hoài ðức", "Hoài Ðức">>,
      <<"quoc oai", "Quốc Oai">>, <<"quốc oai", "Quốc Oai">>, <<"ba dinh", "Ba Ðình">>,
      <<"ba ðình", "Ba Ðình">>, <<"dong da", "Ðống Ða">>, <<"ðống ða", "Ðống Ða">>,
      <<"ha dong", "Hà Ðông">>, <<"hà ðông", "Hà Ðông">>, <<"son tay", "Sơn Tây">>,
      <<"sơn tây", "Sơn Tây">>, <<"gia lam", "Gia Lâm">>, <<"gia lâm", "Gia Lâm">>,
      <<"soc son", "Sóc Sơn">>, <<"sóc sơn", "Sóc Sơn">>, <<"me linh", "Mê Linh">>,
      <<"mê linh", "Mê Linh">>, <<"ung hoa", "Ứng Hòa">>, <<"ứng hòa", "Ứng Hòa">>,
      <<"tay ho", "Tây Hồ">>, <<"tây hồ", "Tây Hồ">>, <<"my duc", "Mỹ Ðức">>,
      <<"mỹ ðức", "Mỹ Ðức">>, <<"ba vi", "Ba Vì">>, <<"ba vì", "Ba Vì">>>>

\* the value of the first key of the table that the text contains, or None
FirstKeyIn(table, text) ==
    LET hits == {k \in 1..Len(table) : Contains(text, table[k][1])}
    IN  IF hits = {} THEN None ELSE Some(table[FirstPos(hits)[1]][2])

\* District detection: landmarks first, then the district names
FallbackDistrict(query_lower) ==
    IF FirstKeyIn(landmark_map, query_lower) # None
    THEN FirstKeyIn(landmark_map, query_lower)
    ELSE FirstKeyIn(district_map_sorted, query_lower)

\* Bedrooms, with the abbreviation pn only
FallbackBedroomsPnOnly(query_lower) ==
    LET m == FirstPos({i \in 1..Len(query_lower) :
                         /\ DigitsEnd(query_lower, i) > i
                         /\ At(query_lower, SpacesEnd(query_lower, DigitsEnd(query_lower, i)), "pn")})
    IN  IF m = None THEN None
        ELSE Some(ParseInt(SubSeq(query_lower, m[1], DigitsEnd(query_lower, m[1]) - 1)))

\* Bedrooms
FallbackBedrooms(query_lower) ==
    LET m == FirstPos({i \in 1..Len(query_lower) : BedroomAt(query_lower, i)})
    IN  IF m = None THEN None
        ELSE Some(ParseInt(SubSeq(query_lower, m[1], DigitsEnd(query_lower, m[1]) - 1)))

\* Price: <<price_min, price_max, price_text>>
FallbackPrice(query_lower) ==
    LET s == query_lower
        r == FirstPos({i \in 1..Len(s) : PriceRangeAt(s, i)})
        u == FirstPos({i \in 1..Len(s) : UnderAt(s, i)})
    IN  IF r # None
        THEN LET e1 == NumeralEnd(s, r[1])
                 b2 == SpacesEnd(s, SpacesEnd(s, e1) + 1)
                 g1 == SubSeq(s, r[1], e1 - 1)
                 g2 == SubSeq(s, b2, NumeralEnd(s, b2) - 1)
             IN  <<Some(NumeralToAmount(g1)), Some(NumeralToAmount(g2)), Some(g1 \o "-" \o g2 \o " tỷ")>>
        ELSE IF u # None
        THEN LET b == SpacesEnd(s, u[1] + 4)
                 g == SubSeq(s, b, NumeralEnd(s, b) - 1)
             IN  <<None, Some(NumeralToAmount(g)), Some("dưới " \o g \o " tỷ")>>
        ELSE <<None, None, None>>

\* Intent (buy/rent)
FallbackIntent(query_lower) ==
    IF Contains(query_lower, "thuê") \/ Contains(query_lower, "cho thuê") THEN "thuê" ELSE "mua"

\* _fallback_parse_query(query)
FallbackParseQuery(query) ==
    LET query_lower == Lower(query)
        price == FallbackPrice(query_lower)
    IN  [DefaultIntent EXCEPT
            !.property_type = FirstKeyIn(ptype_map_sorted, query_lower),
            !.district = FallbackDistrict(query_lower),
            !.bedrooms = FallbackBedrooms(query_lower),
            !.price_min = price[1],
            !.price_max = price[2],
            !.price_text = price[3],
            !.city = Some("Hà Nội"),
            !.intent = Some(FallbackIntent(query_lower)),
            !.keywords = Some(<<query>>)]

-----------------------------------------------------------------------------
(* JSON values, as json.loads returns them *)

JNull == [t |-> "null"]

JStr(s) == [t |-> "str", s |-> s]

JNum(n) == [t |-> "num", n |-> n]

JArr(items) == [t |-> "arr", items |-> items]

\* a dict: a function from its keys to JSON values; EmptyDict is {}
JObj(o) == [t |-> "obj", o |-> o]

EmptyDict == <<>>

\* bool(x) of a JSON value
JTruthy(j) ==
    CASE j.t = "null" -> FALSE
      [] j.t = "str" -> j.s # ""
      [] j.t = "num" -> j.n # 0
      [] j.t = "arr" -> j.items # <<>>
      [] j.t = "obj" -> DOMAIN j.o # {}

\* the Python value of a JSON value, as a field of SearchIntent holds it
ToPy(j) ==
    CASE j.t = "null" -> None
      [] j.t = "str" -> Some(j.s)
      [] j.t = "num" -> Some(j.n)
      [] j.t = "arr" -> Some(j.items)
      [] j.t = "obj" -> Some(j.o)

\* d.get(key, default)
DictGet(d, key, default) == IF key \in DOMAIN d THEN d[key] ELSE default

\* d.get(key)
DictGetOpt(d, key) == DictGet(d, key, JNull)

-----------------------------------------------------------------------------
(* The result of a call that may raise *)

Returned(v) == [raised |-> FALSE, exc |-> "", value |-> v]

Raised(exc, v) == [raised |-> TRUE, exc |-> exc, value |-> v]

-----------------------------------------------------------------------------
(* SearchIntent.from_dict *)

RECURSIVE FindSep(_, _, _)
\* the position of the first sep in s at or after i, Len(s) + 1 if none
FindSep(s, sep, i) ==
    IF i > Len(s) \/ Ch(s, i) = sep THEN i ELSE FindSep(s, sep, i + 1)

\* s.split(sep)[0]
SplitFirst(s, sep) == SubSeq(s, 1, FindSep(s, sep, 1) - 1)

\* from_dict without lines 72-73: the city is kept as the model wrote it
SanitizeCityKeepsRaw(raw_city) == ToPy(raw_city)

\* Sanitize city if LLM returns "Hà Nội | Hồ Chí Minh"
SanitizeCity(raw_city) ==
    IF raw_city.t = "str" /\ Contains(raw_city.s, "|")
    THEN Some(Strip(SplitFirst(raw_city.s, "|")))
    ELSE ToPy(raw_city)

\* the keyword arguments of cls(...) read from the dict and its nested dicts
FromDictFields(data, location, price, area) ==
    [property_type |-> ToPy(DictGetOpt(data, "property_type")),
     city |-> SanitizeCity(DictGet(location, "city", JStr("Hà Nội"))),
     district |-> ToPy(DictGetOpt(location, "district")),
     ward |-> ToPy(DictGetOpt(location, "ward")),
     street |-> ToPy(DictGetOpt(location, "street")),
     price_min |-> ToPy(DictGetOpt(price, "min")),
     price_max |-> ToPy(DictGetOpt(price, "max")),
     price_text |-> ToPy(DictGetOpt(price, "text")),
     area_min |-> ToPy(DictGetOpt(area, "min")),
     area_max |-> ToPy(DictGetOpt(area, "max")),
     bedrooms |-> ToPy(DictGetOpt(data, "bedrooms")),
     bathrooms |-> ToPy(DictGetOpt(data, "bathrooms")),
     features |-> ToPy(DictGet(data, "features", JArr(<<>>))),
     keywords |-> ToPy(DictGet(data, "keywords", JArr(<<>>))),
     requirements |-> ToPy(DictGet(data, "requirements", JArr(<<>>))),
     intent |-> ToPy(DictGet(data, "intent", JStr("mua")))]

\* from_dict(data): .get of a value that is no dict raises AttributeError,
\* "|" in raw_city of a number other than 0 raises TypeError
FromDict(data) ==
    IF data.t # "obj" THEN Raised("AttributeError", DefaultIntent)
    ELSE LET location == DictGet(data.o, "location", JObj(EmptyDict))
             price == DictGet(data.o, "price", JObj(EmptyDict))
             area == DictGet(data.o, "area", JObj(EmptyDict))
         IN  IF location.t # "obj" THEN Raised("AttributeError", DefaultIntent)
             ELSE IF /\ DictGet(location.o, "city", JStr("Hà Nội")).t = "num"
                     /\ JTruthy(DictGet(location.o, "city", JStr("Hà Nội")))
             THEN Raised("TypeError", DefaultIntent)
             ELSE IF price.t # "obj" \/ area.t # "obj"
             THEN Raised("AttributeError", DefaultIntent)
             ELSE Returned(FromDictFields(data.o, location.o, price.o, area.o))

-----------------------------------------------------------------------------
(* _safe_parse_json.  The text of a model is described by what the steps   *)
(* of the extraction find in it: whether it is a str, whether it is empty, *)
(* what json.loads makes of the whole text, and what it makes of the       *)
(* first match of each of the three patterns (None: the pattern does not   *)
(* match).                                                                 *)

\* json.loads returned j
Loads(j) == [ok |-> TRUE, j |-> j]

\* json.loads raised
Unparsable == [ok |-> FALSE, j |-> JNull]

Content(is_str, empty, whole, fenced, block, brace) ==
    [is_str |-> is_str, empty |-> empty, whole |-> whole,
     fenced |-> fenced, block |-> block, brace |-> brace]

\* the Python value json.loads returns: None for JSON null
PyOf(j) == IF j.t = "null" THEN None ELSE Some(j)

\* bool(parsed) of the Optional value _safe_parse_json returns
ParsedTruthy(parsed) == parsed # None /\ JTruthy(parsed[1])

\* patterns = [markdown code block, generic code block, simple JSON object]
Patterns(c) == <<c.fenced, c.block, c.brace>>

RECURSIVE TryPatterns(_)
\* for pattern in patterns: the first match that json.loads accepts
TryPatterns(matches) ==
    IF matches = <<>> THEN None
    ELSE IF Head(matches) # None /\ Head(matches)[1].ok THEN PyOf(Head(matches)[1].j)
    ELSE TryPatterns(Tail(matches))

\* _safe_parse_json(text); re.search of a text that is no str raises TypeError
SafeParseJson(c) ==
    IF c.empty THEN Returned(None)
    ELSE IF c.is_str /\ c.whole.ok THEN Returned(PyOf(c.whole.j))
    ELSE IF ~c.is_str THEN Raised("TypeError", None)
    ELSE Returned(TryPatterns(Patterns(c)))

-----------------------------------------------------------------------------
(* parse_query: what follows the model's answer, up to the next await *)

\* "Gemini" in type(self.llm).__name__ or "Google" in type(self.llm).__name__
IsGemini(llm_name) == Contains(llm_name, "Gemini") \/ Contains(llm_name, "Google")

\* except Exception: the exceptions of the model catch nothing but ValueError
CaughtValueErrorOnly(exc) == exc = "ValueError"

\* except Exception as e: every exception of the model is an Exception
Caught(exc) == TRUE

Outcome(kind, exc, intent) == [kind |-> kind, exc |-> exc, intent |-> intent]

\* Validation: If critical fields are missing, force fallback
EmptyIntent(intent) ==
    /\ ~TruthyStr(intent.district)
    /\ ~TruthyInt(intent.price_max)
    /\ ~TruthyInt(intent.price_min)

\* lines 311-316 replacing the whole intent by the fallback's, not its district
BackfillEverything(intent, fallback) ==
    IF ~TruthyStr(intent.district) /\ TruthyStr(fallback.district)
    THEN fallback
    ELSE intent

\* HYBRID FIX: If LLM missed district, check fallback rules;
\* fallback is self._fallback_parse_query(query)
BackfillDistrict(intent, fallback) ==
    IF ~TruthyStr(intent.district) /\ TruthyStr(fallback.district)
    THEN [intent EXCEPT !.district = fallback.district]
    ELSE intent

\* lines 298-308: "return" the validated intent (the district backfill
\* follows), "raise" into the except clause, or "fallthrough" to the regex
\* fallback when parsed is falsy
PrimaryOutcome(content) ==
    LET parsed == SafeParseJson(content)
    IN  IF parsed.raised THEN Outcome("raise", parsed.exc, DefaultIntent)
        ELSE IF ~ParsedTruthy(parsed.value) THEN Outcome("fallthrough", "", DefaultIntent)
        ELSE LET r == FromDict(parsed.value[1])
             IN  IF r.raised THEN Outcome("raise", r.exc, DefaultIntent)
                 ELSE IF EmptyIntent(r.value) THEN Outcome("raise", "ValueError", DefaultIntent)
                 ELSE Outcome("return", "", r.value)

\* lines 339-343: the answer of the secondary model, returned unvalidated
SecondaryOutcome(content) ==
    LET parsed == SafeParseJson(content)
    IN  IF parsed.raised THEN Outcome("raise", parsed.exc, DefaultIntent)
        ELSE IF ~ParsedTruthy(parsed.value) THEN Outcome("fallthrough", "", DefaultIntent)
        ELSE LET r == FromDict(parsed.value[1])
             IN  IF r.raised THEN Outcome("raise", r.exc, DefaultIntent)
                 ELSE Outcome("return", "", r.value)

-----------------------------------------------------------------------------
(* The platform scrapers.  A page is the sequence of its candidate         *)
(* elements; an element is described by what the extraction reads from     *)
(* it: whether it has a link, the link's href, the text the price pattern  *)
(* matches (None: no match), the number _parse_price_to_number makes of    *)
(* it, the link's text, what extract_district answers for its text         *)
(* (chotot) or its address (batdongsan), its address (batdongsan; None:    *)
(* no location element and no "Hà Nội" in the text), the bedroom count     *)
(* the bedroom pattern finds (batdongsan), and whether reading it raises.  *)

Item(link, href, price_text, price_number, title, district, address, bedrooms, raises) ==
    [link |-> link, href |-> href, price_text |-> price_text, price_number |-> price_number,
     title |-> title, district |-> district, address |-> address,
     bedrooms |-> bedrooms, raises |-> raises]

\* if len(listings) >= 12: break
ScrapeCap == 12

slug_map ==
    << <<"ba ðình", "/quan-ba-dinh">>, <<"hoàn kiếm", "/quan-hoan-kiem">>, <<"tây hồ", "/quan-tay-ho">>,
       <<"long biên", "/quan-long-bien">>, <<"cầu giấy", "/quan-cau-giay">>, <<"ðống ða", "/quan-dong-da">>,
       <<"hai bà trưng", "/quan-hai-ba-trung">>, <<"hoàng mai", "/quan-hoang-mai">>, <<"thanh xuân", "/quan-thanh-xuan">>,
       <<"sóc sơn", "/huyen-soc-son">>, <<"ðông anh", "/huyen-dong-anh">>, <<"gia lâm", "/huyen-gia-lam">>,
       <<"nam từ liêm", "/quan-nam-tu-liem">>, <<"thanh trì", "/huyen-thanh-tri">>, <<"bắc từ liêm", "/quan-bac-tu-liem">>,
       <<"mê linh", "/huyen-me-linh">>, <<"hà ðông", "/quan-ha-dong">>, <<"sơn tây", "/thi-xa-son-tay">>,
       <<"ba vì", "/huyen-ba-vi">>, <<"phúc thọ", "/huyen-phuc-tho">>, <<"ðan phượng", "/huyen-dan-phuong">>,
       <<"hoài ðức", "/huyen-hoai-duc">>, <<"quốc oai", "/huyen-quoc-oai">>, <<"thạch thất", "/huyen-thach-that">>,
       <<"chương mỹ", "/huyen-chuong-my">>, <<"thanh oai", "/huyen-thanh-oai">>, <<"thường tín", "/huyen-thuong-tin">>,
       <<"phú xuyên", "/huyen-phu-xuyen">>, <<"ứng hòa", "/huyen-ung-hoa">>, <<"mỹ ðức", "/huyen-my-duc">> >>

\* district_slug of the chotot scraper: "" unless a key of slug_map is in
\* the lower-cased district of the intent
ChototDistrictSlug(intent) ==
    IF ~TruthyStr(intent.district) THEN ""
    ELSE LET hit == FirstKeyIn(slug_map, Lower(intent.district[1]))
         IN  IF hit = None THEN "" ELSE hit[1]

\* x or y of two Optional[str]
OrElse(x, y) == IF TruthyStr(x) THEN x ELSE y

\* if href.startswith('/'): href = f"https://nha.chotot.com{href}"
AbsoluteUrl(base, href) == IF StartsWith(href, "/") THEN base \o href ELSE href

\* Location heuristic of the chotot scraper: the district is inherited from
\* the intent on a district page, else extracted, else the intent's again
ChototDistrict(item, intent, district_slug) ==
    LET listing_district ==
            IF district_slug # "" /\ TruthyStr(intent.district) THEN intent.district
            ELSE item.district
    IN  OrElse(listing_district, intent.district)

\* the address of a chotot listing
ChototAddress(intent, district_slug) ==
    IF district_slug # "" /\ TruthyStr(intent.district)
    THEN intent.district[1] \o ", " \o (IF intent.city = None THEN "None" ELSE intent.city[1])
    ELSE "N/A"

\* the candidate is no listing: no link, no href, a link seen before, a
\* link that is no listing link, or no price
ChototSkips(item, seen_urls) ==
    \/ ~item.link
    \/ item.href = "" \/ item.href \in seen_urls
    \/ ~(Contains(item.href, ".htm") \/ Contains(item.href, "mua-ban-bat-dong-san"))
    \/ item.price_text = None

ChototListing(item, intent, district_slug) ==
    Listing(item.title, item.price_text[1], item.price_number, None, None,
            ChototAddress(intent, district_slug),
            ChototDistrict(item, intent, district_slug),
            OrElse(intent.city, Some("Hà Nội"))[1],
            "Liên hệ", AbsoluteUrl("https://nha.chotot.com", item.href), "chotot")

RECURSIVE ChototLoop(_, _, _, _, _)
\* for item in candidates: ... of _scrape_chotot_direct
ChototLoop(listings, seen_urls, items, intent, district_slug) ==
    IF items = <<>> \/ Len(listings) >= ScrapeCap THEN listings
    ELSE IF Head(items).raises \/ ChototSkips(Head(items), seen_urls)
    THEN ChototLoop(listings, seen_urls, Tail(items), intent, district_slug)
    ELSE ChototLoop(Append(listings, ChototListing(Head(items), intent, district_slug)),
                    seen_urls \cup {AbsoluteUrl("https://nha.chotot.com", Head(items).href)},
                    Tail(items), intent, district_slug)

\* what _scrape_chotot_direct extracts from a page, before the filter
ChototExtract(items, intent) ==
    ChototLoop(<<>>, {}, items, intent, ChototDistrictSlug(intent))

\* the candidate is no listing of batdongsan
BatdongsanSkips(item, seen_urls) ==
    \/ ~item.link
    \/ item.price_text = None
    \/ item.href = "" \/ item.href \in seen_urls
    \/ Contains(AbsoluteUrl("https://batdongsan.com.vn", item.href), "/du-an/")
    \/ Contains(AbsoluteUrl("https://batdongsan.com.vn", item.href), "/tin-tuc/")

\* STRICT: Only use extracted district
BatdongsanDistrict(item) == IF item.address # None THEN item.district ELSE None

BatdongsanListing(item, intent) ==
    Listing(item.title, item.price_text[1], item.price_number, None, item.bedrooms,
            IF item.address # None THEN item.address[1] ELSE "N/A",
            BatdongsanDistrict(item),
            OrElse(intent.city, Some("Hà Nội"))[1],
            "Liên hệ", AbsoluteUrl("https://batdongsan.com.vn", item.href), "batdongsan")

RECURSIVE BatdongsanLoop(_, _, _, _)
\* for item in candidates: ... of _scrape_batdongsan_direct
BatdongsanLoop(listings, seen_urls, items, intent) ==
    IF items = <<>> \/ Len(listings) >= ScrapeCap THEN listings
    ELSE IF Head(items).raises \/ BatdongsanSkips(Head(items), seen_urls)
    THEN BatdongsanLoop(listings, seen_urls, Tail(items), intent)
    ELSE BatdongsanLoop(Append(listings, BatdongsanListing(Head(items), intent)),
                        seen_urls \cup {AbsoluteUrl("https://batdongsan.com.vn", Head(items).href)},
                        Tail(items), intent)

\* what _scrape_batdongsan_direct extracts from a page, before the filter
BatdongsanExtract(items, intent) == BatdongsanLoop(<<>>, {}, items, intent)

\* the listings a platform's page yields before the filter; a platform
\* that is neither chotot nor batdongsan is not scraped
Extract(platform, items, intent) ==
    IF platform = "chotot" THEN ChototExtract(items, intent)
    ELSE IF platform = "batdongsan" THEN BatdongsanExtract(items, intent)
    ELSE <<>>

-----------------------------------------------------------------------------
(* The deduplicator's inputs and its loop, one iteration per step.         *)

MaxListings == 3

\* a title of 66 characters, one that has the same first 50 characters once
\* lowered and stripped, one that differs from it at the 50th, and none
TitleA == "Bán cǎn hộ chung cư Cầu Giấy 2 phòng ngủ, nội thất ðầy ðủ, giá tốt"

TitleB == "  bán cǎn hộ chung cư cầu giấy 2 phòng ngủ, nội thất cơ bản  "

TitleC == "Bán cǎn hộ chung cư Cầu Giấy 2 phòng ngủ, nội thấp tầng"

DedupTitles == {TitleA, TitleB, TitleC, ""}

DedupUrls == {"", "https://batdongsan.com.vn/ban-can-ho-chung-cu-pr1", "https://nha.chotot.com/1.htm"}

\* a listing as a scraper builds it, with the given title and source URL
DedupListing(title, url) ==
    Listing(title, "3,5 tỷ", Some(3500), None, None, "N/A", None, "Hà Nội", "Liên hệ", url, "batdongsan")

DedupPool == {DedupListing(t, u) : t \in DedupTitles, u \in DedupUrls}

DedupInputs == UNION {[1..n -> DedupPool] : n \in 0..MaxListings}

DedupInit ==
    /\ dd_pc = "loop"
    /\ dd_in \in DedupInputs
    /\ dd_i = 1
    /\ dd_seen_urls = {}
    /\ dd_seen_titles = {}
    /\ dd_unique = <<>>
    /\ dd_kept = <<>>
    /\ dd_first = None
    /\ ddRestIdle

\* for listing in listings: ...   (dd_kept records the indices that were kept)
DedupIter ==
    /\ dd_pc = "loop"
    /\ dd_i <= Len(dd_in)
    /\ LET st == DedupStep([seen_urls |-> dd_seen_urls, seen_titles |-> dd_seen_titles,
                            unique |-> dd_unique], dd_in[dd_i])
       IN  /\ dd_seen_urls' = st.seen_urls
           /\ dd_seen_titles' = st.seen_titles
           /\ dd_unique' = st.unique
           /\ dd_kept' = IF Len(st.unique) > Len(dd_unique) THEN Append(dd_kept, dd_i) ELSE dd_kept
    /\ dd_i' = dd_i + 1
    /\ UNCHANGED <<dd_pc, dd_in, dd_first>>
    /\ UNCHANGED ddRest

\* return unique
DedupReturn ==
    /\ dd_pc = "loop"
    /\ dd_i > Len(dd_in)
    /\ dd_pc' = "done"
    /\ UNCHANGED <<dd_in, dd_i, dd_seen_urls, dd_seen_titles, dd_unique, dd_kept, dd_first>>
    /\ UNCHANGED ddRest

\* a caller hands the returned list to _deduplicate_listings once more
DedupAgain ==
    /\ dd_pc = "done"
    /\ dd_first = None
    /\ dd_first' = Some(dd_unique)
    /\ dd_in' = dd_unique
    /\ dd_pc' = "loop"
    /\ dd_i' = 1
    /\ dd_seen_urls' = {}
    /\ dd_seen_titles' = {}
    /\ dd_unique' = <<>>
    /\ dd_kept' = <<>>
    /\ UNCHANGED ddRest

DedupNext == DedupIter \/ DedupReturn \/ DedupAgain

SpecDedup == DedupInit /\ [][DedupNext]_vars

-----------------------------------------------------------------------------
(* Claims about _deduplicate_listings *)

\* the indices of dd_in that the finished loop kept
KeptIdx == {dd_kept[k] : k \in 1..Len(dd_kept)}

\* C6: the returned list holds no two listings with the same non-empty source
\* URL and no two with the same non-empty title key (the title lowered,
\* stripped and cut to its first 50 characters).
C6_NoTwoShareKey ==
    dd_pc = "done" =>
        \A i, j \in 1..Len(dd_unique) :
            i < j =>
                /\ ~(UrlKey(dd_unique[i]) # None /\ UrlKey(dd_unique[i]) = UrlKey(dd_unique[j]))
                /\ ~(TitleKey(dd_unique[i]) # None /\ TitleKey(dd_unique[i]) = TitleKey(dd_unique[j]))

\* C6 witness: a finished run whose input held a URL duplicate and a title
\* duplicate (two titles that differ as written) and lost both.
C6_Witness ==
    /\ dd_pc = "done"
    /\ Len(dd_in) = 3
    /\ Len(dd_unique) = 1
    /\ UrlKey(dd_in[1]) # None /\ UrlKey(dd_in[1]) = UrlKey(dd_in[2])
    /\ TitleKey(dd_in[2]) # TitleKey(dd_in[1])
    /\ UrlKey(dd_in[3]) # UrlKey(dd_in[1])
    /\ dd_in[3].title # dd_in[1].title /\ TitleKey(dd_in[3]) = TitleKey(dd_in[1])

\* C7: deduplicating a returned list returns the same list, in the same order.
C7_Idempotent ==
    (dd_pc = "done" /\ dd_first # None) => dd_unique = dd_first[1]

\* C7 witness: the second pass has finished over a first result of two or
\* more listings (the first pass started from the initial input).
C7_Witness ==
    /\ dd_pc = "done"
    /\ dd_first # None
    /\ Len(dd_first[1]) >= 2
    /\ DeduplicateListings(dd_first[1]) = dd_unique

\* the first index of dd_in whose URL key is that of index i
FirstWithUrl(i) == CHOOSE k \in 1..i : UrlKey(dd_in[k]) = UrlKey(dd_in[i]) /\ \A m \in 1..(k - 1) : UrlKey(dd_in[m]) # UrlKey(dd_in[i])

\* another index of dd_in has the URL key of index i
SharesUrl(i) == \E j \in 1..Len(dd_in) : j # i /\ UrlKey(dd_in[j]) = UrlKey(dd_in[i])

\* C8 as stated: of the listings that share one non-empty source URL the
\* first in input order is returned and none of the later ones, and a
\* listing with neither URL nor title is always returned.
C8_FirstOfUrlKept_Original ==
    dd_pc = "done" =>
        \A i \in 1..Len(dd_in) :
            /\ (UrlKey(dd_in[i]) # None /\ SharesUrl(i)) => (i \in KeptIdx <=> FirstWithUrl(i) = i)
            /\ (UrlKey(dd_in[i]) = None /\ TitleKey(dd_in[i]) = None) => i \in KeptIdx

\* index i has the title key of a listing kept before it
TitleDupOfEarlierKept(i) ==
    /\ TitleKey(dd_in[i]) # None
    /\ \E k \in KeptIdx : k < i /\ TitleKey(dd_in[k]) = TitleKey(dd_in[i])

\* C8 amended: of the listings that share one non-empty source URL at most
\* one is returned; the first in input order is returned, and none of the
\* later ones, unless that first one has the title key of a listing kept
\* before it; a listing with neither URL nor title is always returned.
C8_FirstOfUrlKept ==
    dd_pc = "done" =>
        \A i \in 1..Len(dd_in) :
            /\ UrlKey(dd_in[i]) # None =>
                /\ \A j \in 1..Len(dd_in) :
                      (j # i /\ UrlKey(dd_in[j]) = UrlKey(dd_in[i])) => ~(i \in KeptIdx /\ j \in KeptIdx)
                /\ (FirstWithUrl(i) = i /\ ~TitleDupOfEarlierKept(i)) => i \in KeptIdx
                /\ (FirstWithUrl(i) # i /\ ~TitleDupOfEarlierKept(FirstWithUrl(i))) => i \notin KeptIdx
            /\ (UrlKey(dd_in[i]) = None /\ TitleKey(dd_in[i]) = None) => i \in KeptIdx

\* C8 witness: two listings with one URL and different titles, of which the
\* first is returned and the second is not, between listings that have
\* neither URL nor title and are returned.
C8_Witness ==
    /\ dd_pc = "done"
    /\ dd_first = None
    /\ Len(dd_in) = 3
    /\ UrlKey(dd_in[1]) # None /\ UrlKey(dd_in[1]) = UrlKey(dd_in[3])
    /\ TitleKey(dd_in[1]) # TitleKey(dd_in[3]) /\ TitleKey(dd_in[3]) # None
    /\ UrlKey(dd_in[2]) = None /\ TitleKey(dd_in[2]) = None
    /\ dd_kept = <<1, 2>>

-----------------------------------------------------------------------------
(* The filter's inputs and its loop, one iteration per step.               *)

MaxFilterListings == 3

\* a listing as a scraper builds it, with the fields the filter reads
FilterListing(title, price_number, bedrooms, district, city) ==
    Listing(title, "3,5 tỷ", price_number, Some(85), bedrooms, "N/A", district, city, "Liên hệ",
            "https://batdongsan.com.vn/ban-can-ho-chung-cu-pr1", "batdongsan")

ApartmentTitle == "Bán cǎn hộ chung cư Cầu Giấy 2PN"

LandTitle == "Bán lô ðất thổ cư Thanh Xuân"

HouseTitle == "Bán nhà riêng ngõ ô tô"

\* listings that differ from an apartment in Cầu Giấy in one or two fields
FilterPoolWide ==
    {FilterListing(ApartmentTitle, p, Some(2), Some("Cầu Giấy"), "Hà Nội") :
        p \in {None, Some(1700), Some(1800), Some(3500), Some(5500), Some(5600)}}
    \cup {FilterListing(ApartmentTitle, Some(3500), Some(2), d, "Hà Nội") :
        d \in {None, Some(""), Some("Quận Cầu Giấy"), Some("cầu giấy, hà nội"), Some("Thanh Xuân Trung"), Some("Ðống Ða")}}
    \cup {FilterListing(ApartmentTitle, Some(3500), Some(2), Some("Cầu Giấy"), c) :
        c \in {"", "ha noi", "TP.HCM", "Hồ Chí Minh", "Ðà Nẵng"}}
    \cup {FilterListing(ApartmentTitle, Some(3500), b, Some("Cầu Giấy"), "Hà Nội") :
        b \in {None, Some(3)}}
    \cup {FilterListing(t, Some(3500), Some(2), d, "Hà Nội") :
        t \in {LandTitle, HouseTitle, ""}, d \in {Some("Cầu Giấy"), Some("Thanh Xuân")}}

\* a few listings, of which every intent below keeps some and drops others
FilterPoolSmall ==
    {FilterListing(ApartmentTitle, Some(3500), Some(2), Some("Cầu Giấy"), "Hà Nội"),
     FilterListing(ApartmentTitle, None, None, None, "Hà Nội"),
     FilterListing(LandTitle, Some(5600), Some(3), Some("Thanh Xuân"), "Hà Nội"),
     FilterListing(HouseTitle, Some(1700), Some(2), Some("Quận 1"), "TP.HCM")}

FilterInputs ==
    UNION {[1..n -> FilterPoolSmall] : n \in 0..MaxFilterListings}
    \cup [1..1 -> FilterPoolWide]

\* an intent with the fields the filter reads
FilterIntent(property_type, city, district, price_min, price_max, bedrooms) ==
    [DefaultIntent EXCEPT !.property_type = property_type, !.city = city,
                          !.district = district, !.price_min = price_min,
                          !.price_max = price_max, !.bedrooms = bedrooms]

FilterIntents ==
    <<FilterIntent(None, Some("Hà Nội"), None, None, None, None),
      FilterIntent(None, Some("Hà Nội"), None, None, Some(5000), None),
      FilterIntent(None, Some("Hà Nội"), None, Some(2000), Some(5000), None),
      FilterIntent(None, Some("Hà Nội"), None, Some(0), Some(0), Some(0)),
      FilterIntent(None, Some("Hồ Chí Minh"), None, None, None, None),
      FilterIntent(None, Some("hn"), None, None, None, None),
      FilterIntent(None, None, None, None, None, None),
      FilterIntent(None, Some("Hà Nội"), Some("Cầu Giấy"), None, None, None),
      FilterIntent(None, Some("Hà Nội"), Some("Quận Thanh Xuân"), None, None, None),
      FilterIntent(None, Some("Hà Nội"), None, None, None, Some(2)),
      FilterIntent(Some("chung cư"), Some("Hà Nội"), None, None, None, None),
      FilterIntent(Some("Cǎn hộ"), Some("Hà Nội"), None, None, None, None),
      FilterIntent(Some("ðất nền"), Some("Hà Nội"), None, None, None, None),
      FilterIntent(Some("nhà riêng"), Some("Hà Nội"), None, None, None, None),
      FilterIntent(Some("chung cư"), Some("Hà Nội"), Some("Cầu Giấy"), None, Some(5000), Some(2))>>

FilterInit ==
    /\ fl_pc = "loop"
    /\ \E k \in 1..Len(FilterIntents) : fl_intent = Some(FilterIntents[k])
    /\ fl_in \in FilterInputs
    /\ fl_i = 1
    /\ fl_filtered = <<>>
    /\ flRestIdle

\* for listing in listings: ...
FilterIter ==
    /\ fl_pc = "loop"
    /\ fl_i <= Len(fl_in)
    /\ fl_filtered' = FilterStep(fl_filtered, fl_in[fl_i], fl_intent[1])
    /\ fl_i' = fl_i + 1
    /\ UNCHANGED <<fl_pc, fl_intent, fl_in>>
    /\ UNCHANGED flRest

\* return filtered
FilterReturn ==
    /\ fl_pc = "loop"
    /\ fl_i > Len(fl_in)
    /\ fl_pc' = "done"
    /\ UNCHANGED <<fl_intent, fl_in, fl_i, fl_filtered>>
    /\ UNCHANGED flRest

FilterNext == FilterIter \/ FilterReturn

SpecFilter == FilterInit /\ [][FilterNext]_vars

-----------------------------------------------------------------------------
(* Claims about _filter_listings_by_intent *)

RECURSIVE IsSubseq(_, _)
\* sub is full with some elements left out, the others in their order
IsSubseq(sub, full) ==
    IF sub = <<>> THEN TRUE
    ELSE IF full = <<>> THEN FALSE
    ELSE IF Head(sub) = Head(full) THEN IsSubseq(Tail(sub), Tail(full))
    ELSE IsSubseq(sub, Tail(full))

\* the name is one of the variants of Hà Nội (resp. Hồ Chí Minh)
IsHanoi(city) == ContainsAny(Lower(city), hn_variants)

IsHcm(city) == ContainsAny(Lower(city), hcm_variants)

\* a rejection rule of the intent filter applies to the listing; a field of
\* the intent counts as set when it is neither None, 0 nor ""
RuleApplies(l, in) ==
    \/ /\ TruthyInt(in.price_max) /\ l.price_number # None
       /\ 10 * l.price_number[1] > 11 * in.price_max[1]
    \/ /\ TruthyInt(in.price_min) /\ l.price_number # None
       /\ 10 * l.price_number[1] < 9 * in.price_min[1]
    \/ /\ TruthyStr(in.city) /\ l.location.city # ""
       /\ \/ (IsHanoi(in.city[1]) /\ IsHcm(l.location.city))
          \/ (IsHcm(in.city[1]) /\ IsHanoi(l.location.city))
    \/ /\ TruthyStr(in.district) /\ TruthyStr(l.location.district)
       /\ ~Contains(DistrictCore(in.district[1]), DistrictCore(l.location.district[1]))
       /\ ~Contains(DistrictCore(l.location.district[1]), DistrictCore(in.district[1]))
    \/ TruthyStr(in.district) /\ ~TruthyStr(l.location.district)
    \/ TruthyInt(in.bedrooms) /\ (l.bedrooms = None \/ l.bedrooms # in.bedrooms)
    \/ /\ TruthyStr(in.property_type)
       /\ ContainsAny(Lower(in.property_type[1]), <<"chung cư", "cǎn hộ">>)
       /\ ~ContainsAny(Lower(l.title), apartment_keywords)
    \/ /\ TruthyStr(in.property_type)
       /\ ~ContainsAny(Lower(in.property_type[1]), <<"chung cư", "cǎn hộ">>)
       /\ Contains(Lower(in.property_type[1]), "ðất")
       /\ ~ContainsAny(Lower(l.title), land_keywords)

-----------------------------------------------------------------------------
(* The answers of a language model *)

\* the object the prompt asks for, filled in
FullObject ==
    JObj([property_type |-> JStr("chung cư"),
          location |-> JObj([city |-> JStr("Hà Nội"), district |-> JStr("Cầu Giấy")]),
          price |-> JObj([min |-> JNull, max |-> JNum(5000), text |-> JStr("dưới 5 tỷ")]),
          bedrooms |-> JNum(2),
          intent |-> JStr("mua"),
          requirements |-> JArr(<<"ngõ ô tô">>)])

\* an object with a district, a city and a transaction intent
DistrictObject(city, intent) ==
    JObj([location |-> JObj([city |-> city, district |-> JStr("Tây Hồ")]), intent |-> intent])

\* a text that is JSON as a whole
WholeJson(j) == Content(TRUE, FALSE, Loads(j), None, None, None)

LlmContents ==
    << \* no text; a completion that is no str; prose
       Content(TRUE, TRUE, Unparsable, None, None, None),
       Content(FALSE, FALSE, Unparsable, None, None, None),
       Content(TRUE, FALSE, Unparsable, None, None, None),
       \* scalars and arrays
       WholeJson(JNull),
       WholeJson(JNum(5)),
       WholeJson(JStr("mua")),
       WholeJson(JArr(<<>>)),
       WholeJson(JArr(<<"chung cư">>)),
       \* objects
       WholeJson(FullObject),
       WholeJson(JObj(EmptyDict)),
       WholeJson(JObj([property_type |-> JStr("chung cư")])),
       WholeJson(JObj([location |-> JNull, price |-> JObj([max |-> JNum(3000)])])),
       WholeJson(JObj([location |-> JObj([district |-> JStr("Tây Hồ")]), price |-> JNull])),
       WholeJson(JObj([location |-> JObj([district |-> JStr("Tây Hồ")]), area |-> JNull])),
       WholeJson(JObj([location |-> JObj([district |-> JStr("")]), price |-> JObj([min |-> JNum(0), max |-> JNum(0)])])),
       WholeJson(JObj([location |-> JObj([district |-> JNull]), price |-> JObj([max |-> JNum(3000)])])),
       WholeJson(JObj([price |-> JObj([min |-> JNum(2000)]), intent |-> JStr("thuê")])),
       WholeJson(DistrictObject(JStr("Hà Nội | Hồ Chí Minh"), JStr("mua | thuê"))),
       WholeJson(DistrictObject(JStr("Hồ Chí Minh"), JNull)),
       WholeJson(DistrictObject(JNull, JStr("bán"))),
       WholeJson(DistrictObject(JNum(5), JStr("mua"))),
       WholeJson(JObj([location |-> JObj([district |-> JStr("khu vực quận cầu giấy")])])),
       \* JSON inside other text
       Content(TRUE, FALSE, Unparsable, Some(Loads(FullObject)), Some(Unparsable), None),
       Content(TRUE, FALSE, Unparsable, None, Some(Loads(DistrictObject(JStr("Hà Nội"), JStr("thuê")))), None),
       Content(TRUE, FALSE, Unparsable, None, None, Some(Loads(JObj([bedrooms |-> JNum(2), intent |-> JStr("thuê")])))),
       Content(TRUE, FALSE, Unparsable, Some(Unparsable), Some(Unparsable), Some(Loads(JObj([district |-> JStr("Tây Hồ")])))),
       Content(TRUE, FALSE, Unparsable, None, None, Some(Unparsable)) >>

\* the exceptions a call of a model raises
LlmExceptions == {"AttributeError", "TimeoutError", "ConnectionError"}

\* type(self.llm).__name__ of the three models _init_llm chooses from
LlmNames == {"ChatOllama", "BrowserUseGemini", "ChatGroq"}

PqQueries ==
    {"", "?? @@ 12", "mua nhà",
     "chung cư Cầu Giấy dưới 5 tỷ 2 phòng ngủ",
     "cho thuê cǎn hộ 2pn hồ tây",
     "nhà riêng 2-3 tỷ thanh xuan"}

-----------------------------------------------------------------------------
(* parse_query as a state machine: one step per await and per branch *)

PqInit ==
    /\ pq_pc = "start"
    /\ pq_query \in PqQueries
    /\ pq_llm \in LlmNames
    /\ pq_content = None
    /\ pq_exc = None
    /\ pq_source = ""
    /\ pq_result = None
    /\ pqRestIdle

\* an exception inside the try block: into the except clause if it is caught
PqRaise(exc) ==
    /\ pq_pc' = IF Caught(exc) THEN "except" ELSE "raised"
    /\ pq_exc' = Some(exc)

\* await self.llm.ainvoke(...) of the primary model answers
PqAinvokeAnswers ==
    /\ pq_pc = "start"
    /\ \E k \in 1..Len(LlmContents) :
        /\ pq_content' = Some(LlmContents[k])
        /\ pq_pc' = "parse"
    /\ UNCHANGED <<pq_query, pq_llm, pq_exc, pq_source, pq_result>>
    /\ UNCHANGED pqRest

\* await self.llm.ainvoke(...) of the primary model raises; a Gemini wrapper
\* without ainvoke is called through invoke
PqAinvokeRaises ==
    /\ pq_pc = "start"
    /\ \E exc \in LlmExceptions :
        IF IsGemini(pq_llm) /\ exc = "AttributeError"
        THEN pq_pc' = "invoke" /\ pq_exc' = pq_exc
        ELSE PqRaise(exc)
    /\ UNCHANGED <<pq_query, pq_llm, pq_content, pq_source, pq_result>>
    /\ UNCHANGED pqRest

\* self.llm.invoke(...) answers or raises
PqInvoke ==
    /\ pq_pc = "invoke"
    /\ \/ \E k \in 1..Len(LlmContents) :
            /\ pq_content' = Some(LlmContents[k])
            /\ pq_pc' = "parse"
            /\ pq_exc' = pq_exc
       \/ \E exc \in LlmExceptions :
            /\ PqRaise(exc)
            /\ pq_content' = pq_content
    /\ UNCHANGED <<pq_query, pq_llm, pq_source, pq_result>>
    /\ UNCHANGED pqRest

\* the answer of the primary model is parsed, mapped and validated, and a
\* missing district is filled in from the fallback rules
PqParse ==
    /\ pq_pc = "parse"
    /\ LET o == PrimaryOutcome(pq_content[1])
       IN  CASE o.kind = "return" ->
                  /\ pq_pc' = "done"
                  /\ pq_result' = Some(BackfillDistrict(o.intent, FallbackParseQuery(pq_query)))
                  /\ pq_source' = "primary"
                  /\ pq_exc' = pq_exc
             [] o.kind = "raise" ->
                  /\ PqRaise(o.exc)
                  /\ UNCHANGED <<pq_result, pq_source>>
             [] o.kind = "fallthrough" ->
                  /\ pq_pc' = "fallback"
                  /\ UNCHANGED <<pq_result, pq_source, pq_exc>>
    /\ UNCHANGED <<pq_query, pq_llm, pq_content>>
    /\ UNCHANGED pqRest

\* except Exception: try Ollama if Gemini failed, else the regex fallback
PqExcept ==
    /\ pq_pc = "except"
    /\ pq_pc' = IF IsGemini(pq_llm) THEN "ollama" ELSE "fallback"
    /\ UNCHANGED <<pq_query, pq_llm, pq_content, pq_exc, pq_source, pq_result>>
    /\ UNCHANGED pqRest

\* the secondary model is built and asked; whatever fails there is caught
PqOllama ==
    /\ pq_pc = "ollama"
    /\ \/ \E k \in 1..Len(LlmContents) :
            LET o == SecondaryOutcome(LlmContents[k])
            IN  /\ pq_content' = Some(LlmContents[k])
                /\ IF o.kind = "return"
                   THEN /\ pq_pc' = "done"
                        /\ pq_result' = Some(o.intent)
                        /\ pq_source' = "ollama"
                        /\ pq_exc' = pq_exc
                   ELSE /\ pq_pc' = IF o.kind = "raise" /\ ~Caught(o.exc) THEN "raised" ELSE "fallback"
                        /\ pq_exc' = IF o.kind = "raise" THEN Some(o.exc) ELSE pq_exc
                        /\ UNCHANGED <<pq_result, pq_source>>
       \/ \E exc \in LlmExceptions :
            /\ pq_pc' = IF Caught(exc) THEN "fallback" ELSE "raised"
            /\ pq_exc' = Some(exc)
            /\ UNCHANGED <<pq_content, pq_result, pq_source>>
    /\ UNCHANGED <<pq_query, pq_llm>>
    /\ UNCHANGED pqRest

\* return self._fallback_parse_query(query)
PqFallback ==
    /\ pq_pc = "fallback"
    /\ pq_pc' = "done"
    /\ pq_result' = Some(FallbackParseQuery(pq_query))
    /\ pq_source' = "fallback"
    /\ UNCHANGED <<pq_query, pq_llm, pq_content, pq_exc>>
    /\ UNCHANGED pqRest

PqNext ==
    \/ PqAinvokeAnswers
    \/ PqAinvokeRaises
    \/ PqInvoke
    \/ PqParse
    \/ PqExcept
    \/ PqOllama
    \/ PqFallback

SpecParse == PqInit /\ [][PqNext]_vars

-----------------------------------------------------------------------------
(* Claims about parse_query *)

PqPcs == {"start", "invoke", "parse", "except", "ollama", "fallback", "done"}

C5_IntentIsBuyOrRent ==
    pq_pc = "done" => pq_result[1].intent \in {Some("mua"), Some("thuê")}

-----------------------------------------------------------------------------
(* search and _fallback_direct_scrape as a state machine: one step per     *)
(* await.  se_failures records every step that raised, se_scrapes every    *)
(* call of a scraper with the page it met and the listings it returned.    *)

\* platforms = platforms_to_scrape or ["batdongsan", "chotot"]
Platforms(platforms_to_scrape) ==
    IF platforms_to_scrape = None \/ platforms_to_scrape[1] = <<>>
    THEN <<"batdongsan", "chotot">>
    ELSE platforms_to_scrape[1]

\* except Exception as e: of the platform loop catches the exception
PlatformCaughtNothing(exc) == FALSE

PlatformCaught(exc) == TRUE

\* the listings, all of them
TruncateNothing(listings, max_results) == listings

\* listings[:max_results] for max_results >= 0
Truncate(listings, max_results) ==
    IF Len(listings) <= max_results THEN listings ELSE SubSeq(listings, 1, max_results)

\* str(e) of the exception a step raises
SeMessage(step) ==
    CASE step = "launch" -> "BrowserType.launch: Executable doesn't exist"
      [] step = "new_context" -> "Browser.new_context: Target closed"
      [] step = "add_init_script" -> "BrowserContext.add_init_script: Target closed"
      [] step = "rate_limit_wait" -> "rate limit wait interrupted"
      [] step = "new_page" -> "BrowserContext.new_page: Target closed"
      [] step = "goto" -> "Page.goto: Timeout 60000ms exceeded."
      [] step = "page_close" -> "Page.close: Target closed"
      [] OTHER -> "Browser.close: Connection closed"

Failure(step, platform, msg) == [step |-> step, platform |-> platform, msg |-> msg]

Scrape(platform, nav_failed, items, returned) ==
    [platform |-> platform, nav_failed |-> nav_failed, items |-> items, returned |-> returned]

\* result cards of a page
ItemNoDistrict ==
    Item(TRUE, "/mua-ban-can-ho-chung-cu/123.htm", Some("3 tỷ"), Some(3000),
         "Bán cǎn hộ 70m2 full nội thất", None, None, None, FALSE)

ItemCauGiay ==
    Item(TRUE, "https://batdongsan.com.vn/ban-can-ho-chung-cu-pr456.htm", Some("4,5 tỷ"), Some(4500),
         "Bán cǎn hộ chung cư Cầu Giấy 2PN", Some("Cầu Giấy"), Some("Cầu Giấy, Hà Nội"), Some(2), FALSE)

ItemDongDa ==
    Item(TRUE, "/ban-nha-rieng-pr789.htm", Some("6 tỷ"), Some(6000),
         "Bán nhà riêng Ðống Ða", Some("Ðống Ða"), Some("Ðống Ða, Hà Nội"), Some(3), FALSE)

ItemNoLink == [ItemCauGiay EXCEPT !.link = FALSE]

ItemRaises == [ItemCauGiay EXCEPT !.raises = TRUE]

ItemNoPrice == [ItemDongDa EXCEPT !.price_text = None, !.price_number = None]

ItemProject == [ItemDongDa EXCEPT !.href = "/du-an/vinhomes"]

\* the pages a navigation that succeeds meets
SePages ==
    << <<>>,
       <<ItemNoDistrict, ItemCauGiay>>,
       <<ItemDongDa, ItemDongDa, ItemNoLink, ItemRaises, ItemNoPrice, ItemProject, ItemCauGiay>> >>

\* the calls of search: query, max_results, platforms, intent
SeCall(query, max_results, platforms, intent) ==
    [query |-> query, max_results |-> max_results, platforms |-> platforms, intent |-> intent]

IntentCauGiay == [DefaultIntent EXCEPT !.district = Some("Cầu Giấy")]

SeCalls ==
    {SeCall("mua nhà", 10, None, None),
     SeCall("chung cư Cầu Giấy dưới 5 tỷ 2 phòng ngủ", 10, Some(<<"chotot">>), None),
     SeCall("mua nhà", 10, Some(<<>>), Some(DefaultIntent)),
     SeCall("mua nhà", 1, Some(<<"chotot", "batdongsan">>), Some(DefaultIntent)),
     SeCall("mua nhà", 10, Some(<<"chotot", "nhatot">>), Some(DefaultIntent)),
     SeCall("mua nhà", 10, Some(<<"chotot", "chotot">>), Some(DefaultIntent)),
     SeCall("nhà Cầu Giấy", 10, Some(<<"chotot">>), Some(IntentCauGiay)),
     SeCall("nhà Cầu Giấy", 10, Some(<<"batdongsan", "chotot">>), Some(IntentCauGiay))}

SeInit ==
    /\ \E call \in SeCalls :
        /\ se_query = call.query
        /\ se_max_results = call.max_results
        /\ se_platforms = call.platforms
        /\ se_intent_arg = call.intent
    /\ se_pc = "start"
    /\ se_intent = None
    /\ se_browser = "none"
    /\ se_page_open = FALSE
    /\ se_i = 0
    /\ se_pending = None
    /\ se_all_listings = <<>>
    /\ se_listings = <<>>
    /\ se_total_found = 0
    /\ se_sources_searched = <<>>
    /\ se_errors = <<>>
    /\ se_failures = <<>>
    /\ se_scrapes = <<>>
    /\ pqIdle
    /\ seRestIdle

seArgs == <<se_query, se_max_results, se_platforms, se_intent_arg>>

seResult == <<se_listings, se_total_found, se_sources_searched, se_errors>>

\* if not intent: intent = await self.parse_query(query)
SeCallParse ==
    /\ se_pc = "start"
    /\ se_intent_arg = None
    /\ se_pc' = "parsing"
    /\ pq_pc' = "start"
    /\ pq_query' = se_query
    /\ pq_llm' \in LlmNames
    /\ UNCHANGED <<pq_content, pq_exc, pq_source, pq_result>>
    /\ UNCHANGED <<seArgs, se_intent, se_browser, se_page_open, se_i, se_pending,
                   se_all_listings, seResult, se_failures, se_scrapes>>
    /\ UNCHANGED seRest

\* else: the intent the caller provides is used
SeUseIntent ==
    /\ se_pc = "start"
    /\ se_intent_arg # None
    /\ se_pc' = "launch"
    /\ se_intent' = se_intent_arg
    /\ UNCHANGED <<seArgs, se_browser, se_page_open, se_i, se_pending,
                   se_all_listings, seResult, se_failures, se_scrapes>>
    /\ UNCHANGED pqVars
    /\ UNCHANGED seRest

\* parse_query returns its intent; an exception it recovered from is a
\* failure of the intent parsing
SeParseReturns ==
    /\ se_pc = "parsing"
    /\ pq_pc = "done"
    /\ se_pc' = "launch"
    /\ se_intent' = pq_result
    /\ se_failures' = IF pq_exc = None THEN se_failures
                      ELSE Append(se_failures, Failure("parse_query", "", pq_exc[1]))
    /\ pq_pc' = "idle"
    /\ pq_query' = ""
    /\ pq_llm' = ""
    /\ pq_content' = None
    /\ pq_exc' = None
    /\ pq_source' = ""
    /\ pq_result' = None
    /\ UNCHANGED <<seArgs, se_browser, se_page_open, se_i, se_pending,
                   se_all_listings, seResult, se_scrapes>>
    /\ UNCHANGED seRest

\* except Exception as e: result.errors.append(str(e)) of search
SeTopLevelError(msg) ==
    /\ se_pc' = "done"
    /\ se_errors' = Append(se_errors, msg)
    /\ UNCHANGED <<se_listings, se_total_found, se_sources_searched>>

\* browser = await p.chromium.launch(...)
SeLaunch ==
    /\ se_pc = "launch"
    /\ \/ /\ se_pc' = "new_context"
          /\ se_browser' = "open"
          /\ UNCHANGED <<seResult, se_failures>>
       \/ /\ SeTopLevelError(SeMessage("launch"))
          /\ se_failures' = Append(se_failures, Failure("launch", "", SeMessage("launch")))
          /\ UNCHANGED se_browser
    /\ UNCHANGED <<seArgs, se_intent, se_page_open, se_i, se_pending, se_all_listings, se_scrapes>>
    /\ UNCHANGED pqVars
    /\ UNCHANGED seRest

\* context = await browser.new_context(...)
SeNewContext ==
    /\ se_pc = "new_context"
    /\ \/ /\ se_pc' = "add_init_script"
          /\ UNCHANGED <<seResult, se_failures>>
       \/ /\ SeTopLevelError(SeMessage("new_context"))
          /\ se_failures' = Append(se_failures, Failure("new_context", "", SeMessage("new_context")))
    /\ UNCHANGED <<seArgs, se_intent, se_browser, se_page_open, se_i, se_pending,
                   se_all_listings, se_scrapes>>
    /\ UNCHANGED pqVars
    /\ UNCHANGED seRest

\* await context.add_init_script(...), then into the loop over platforms
SeAddInitScript ==
    /\ se_pc = "add_init_script"
    /\ \/ /\ se_pc' = "loop"
          /\ se_i' = 1
          /\ UNCHANGED <<seResult, se_failures>>
       \/ /\ SeTopLevelError(SeMessage("add_init_script"))
          /\ se_failures' = Append(se_failures,
                                   Failure("add_init_script", "", SeMessage("add_init_script")))
          /\ UNCHANGED se_i
    /\ UNCHANGED <<seArgs, se_intent, se_browser, se_page_open, se_pending,
                   se_all_listings, se_scrapes>>
    /\ UNCHANGED pqVars
    /\ UNCHANGED seRest

\* for platform in platforms: result.sources_searched.append(platform)
SeLoop ==
    /\ se_pc = "loop"
    /\ LET platforms == Platforms(se_platforms)
       IN  IF se_i > Len(platforms)
           THEN /\ se_pc' = "close_browser"
                /\ UNCHANGED se_sources_searched
           ELSE /\ se_pc' = "rate_limit_wait"
                /\ se_sources_searched' = Append(se_sources_searched, platforms[se_i])
    /\ UNCHANGED <<seArgs, se_intent, se_browser, se_page_open, se_i, se_pending,
                   se_all_listings, se_listings, se_total_found, se_errors,
                   se_failures, se_scrapes>>
    /\ UNCHANGED pqVars
    /\ UNCHANGED seRest

\* the end of an iteration going through the same platform once more
SeEndOfIterationRetries == se_pc' = "rate_limit_wait" /\ se_i' = se_i

\* the end of an iteration: if platform != platforms[-1]: the cooldown
SeEndOfIteration ==
    LET platforms == Platforms(se_platforms)
    IN  IF platforms[se_i] # platforms[Len(platforms)]
        THEN se_pc' = "cooldown" /\ se_i' = se_i
        ELSE se_pc' = "loop" /\ se_i' = se_i + 1

\* a step of the iteration raises: the except clause of the loop records
\* the failure; what it does not catch leaves the loop through finally
SePlatformError(step) ==
    LET platform == Platforms(se_platforms)[se_i]
        msg == SeMessage(step)
    IN  /\ se_failures' = Append(se_failures, Failure(step, platform, msg))
        /\ IF PlatformCaught(msg)
           THEN /\ se_errors' = Append(se_errors, platform \o ": " \o msg)
                /\ SeEndOfIteration
                /\ UNCHANGED se_pending
           ELSE /\ se_pending' = Some(msg)
                /\ se_pc' = "close_browser"
                /\ UNCHANGED <<se_errors, se_i>>

\* await self._rate_limit_wait()
SeRateLimitWait ==
    /\ se_pc = "rate_limit_wait"
    /\ \/ /\ se_pc' = "new_page"
          /\ UNCHANGED <<se_i, se_pending, se_errors, se_failures>>
       \/ SePlatformError("rate_limit_wait")
    /\ UNCHANGED <<seArgs, se_intent, se_browser, se_page_open, se_all_listings,
                   se_listings, se_total_found, se_sources_searched, se_scrapes>>
    /\ UNCHANGED pqVars
    /\ UNCHANGED seRest

\* page = await context.new_page()
SeNewPage ==
    /\ se_pc = "new_page"
    /\ \/ /\ se_pc' = "scrape"
          /\ se_page_open' = TRUE
          /\ UNCHANGED <<se_i, se_pending, se_errors, se_failures>>
       \/ /\ SePlatformError("new_page")
          /\ UNCHANGED se_page_open
    /\ UNCHANGED <<seArgs, se_intent, se_browser, se_all_listings,
                   se_listings, se_total_found, se_sources_searched, se_scrapes>>
    /\ UNCHANGED pqVars
    /\ UNCHANGED seRest

\* listings = await self._scrape_..._direct(page, intent) meets a page:
\* the scraper returns what the filter keeps of what it extracts
SeScrapePage ==
    /\ se_pc = "scrape"
    /\ \E k \in 1..Len(SePages) :
        LET platform == Platforms(se_platforms)[se_i]
            extracted == Extract(platform, SePages[k], se_intent[1])
            listings == FilterListingsByIntent(extracted, se_intent[1])
        IN  /\ se_all_listings' = se_all_listings \o listings
            /\ se_scrapes' = Append(se_scrapes, Scrape(platform, FALSE, SePages[k], listings))
    /\ se_pc' = "page_close"
    /\ UNCHANGED <<seArgs, se_intent, se_browser, se_page_open, se_i, se_pending,
                   seResult, se_failures>>
    /\ UNCHANGED pqVars
    /\ UNCHANGED seRest

\* await page.goto(...) raises inside a scraper: its except clause returns
\* [] and the exception goes no further
SeScrapeNavigationFails ==
    /\ se_pc = "scrape"
    /\ LET platform == Platforms(se_platforms)[se_i]
       IN  /\ platform \in {"chotot", "batdongsan"}
           /\ se_scrapes' = Append(se_scrapes, Scrape(platform, TRUE, <<>>, <<>>))
           /\ se_failures' = Append(se_failures, Failure("goto", platform, SeMessage("goto")))
    /\ se_pc' = "page_close"
    /\ UNCHANGED <<seArgs, se_intent, se_browser, se_page_open, se_i, se_pending,
                   se_all_listings, seResult>>
    /\ UNCHANGED pqVars
    /\ UNCHANGED seRest

\* await page.close()
SePageClose ==
    /\ se_pc = "page_close"
    /\ \/ /\ se_page_open' = FALSE
          /\ SeEndOfIteration
          /\ UNCHANGED <<se_pending, se_errors, se_failures>>
       \/ /\ SePlatformError("page_close")
          /\ UNCHANGED se_page_open
    /\ UNCHANGED <<seArgs, se_intent, se_browser, se_all_listings,
                   se_listings, se_total_found, se_sources_searched, se_scrapes>>
    /\ UNCHANGED pqVars
    /\ UNCHANGED seRest

\* await asyncio.sleep(5) between platforms
SeCooldown ==
    /\ se_pc = "cooldown"
    /\ se_pc' = "loop"
    /\ se_i' = se_i + 1
    /\ UNCHANGED <<seArgs, se_intent, se_browser, se_page_open, se_pending,
                   se_all_listings, seResult, se_failures, se_scrapes>>
    /\ UNCHANGED pqVars
    /\ UNCHANGED seRest

\* finally: await browser.close(); an exception on its way out of the loop
\* goes on to the except clause of search
SeCloseBrowser ==
    /\ se_pc = "close_browser"
    /\ \/ /\ se_browser' = "closed"
          /\ IF se_pending = None
             THEN se_pc' = "dedup" /\ UNCHANGED seResult
             ELSE SeTopLevelError(se_pending[1])
          /\ UNCHANGED se_failures
       \/ /\ SeTopLevelError(SeMessage("browser_close"))
          /\ se_failures' = Append(se_failures,
                                   Failure("browser_close", "", SeMessage("browser_close")))
          /\ UNCHANGED se_browser
    /\ UNCHANGED <<seArgs, se_intent, se_page_open, se_i, se_pending,
                   se_all_listings, se_scrapes>>
    /\ UNCHANGED pqVars
    /\ UNCHANGED seRest

\* result.listings = self._deduplicate_listings(all_listings)[:max_results]
\* result.total_found = len(result.listings); return result
SeDedup ==
    /\ se_pc = "dedup"
    /\ se_pc' = "done"
    /\ se_listings' = Truncate(DeduplicateListings(se_all_listings), se_max_results)
    /\ se_total_found' = Len(se_listings')
    /\ UNCHANGED <<seArgs, se_intent, se_browser, se_page_open, se_i, se_pending,
                   se_all_listings, se_sources_searched, se_errors, se_failures, se_scrapes>>
    /\ UNCHANGED pqVars
    /\ UNCHANGED seRest

SeNext ==
    \/ SeCallParse
    \/ SeUseIntent
    \/ SeParseReturns
    \/ SeLaunch
    \/ SeNewContext
    \/ SeAddInitScript
    \/ SeLoop
    \/ SeRateLimitWait
    \/ SeNewPage
    \/ SeScrapePage
    \/ SeScrapeNavigationFails
    \/ SePageClose
    \/ SeCooldown
    \/ SeCloseBrowser
    \/ SeDedup

Next == SeNext \/ PqNext

Spec == SeInit /\ [][Next]_vars

-----------------------------------------------------------------------------
(* Claims about search *)

SePcs ==
    {"start", "parsing", "launch", "new_context", "add_init_script", "loop",
     "rate_limit_wait", "new_page", "scrape", "page_close", "cooldown",
     "close_browser", "dedup", "done"}

\* the failure is in result.errors, as its message or as "<platform>: <message>"
Recorded(failure) ==
    \E j \in DOMAIN se_errors :
        \/ se_errors[j] = failure.msg
        \/ failure.platform # "" /\ se_errors[j] = failure.platform \o ": " \o failure.msg

\* C1: search never raises: whichever of its steps fails (intent parsing,
\* browser launch or context setup, rate-limit wait, a platform scrape,
\* deduplication), it still returns a SearchResult and the message of the
\* failure is an element of result.errors.
C1_FailuresRecorded ==
    /\ se_pc \in SePcs
    /\ pq_pc # "raised"
    /\ se_pc = "done" => \A k \in DOMAIN se_failures : Recorded(se_failures[k])

\* C2: when the navigation of a platform's scrape fails, that platform
\* contributes no listings and result.errors gains "<platform>: <message>";
\* the other platforms are still scraped.
C2_NavigationFailureRecorded ==
    se_pc = "done" =>
        \A k \in DOMAIN se_scrapes :
            se_scrapes[k].nav_failed =>
                /\ se_scrapes[k].returned = <<>>
                /\ \E j \in DOMAIN se_errors :
                    se_errors[j] = se_scrapes[k].platform \o ": " \o SeMessage("goto")

IsPrefixOf(s, t) == Len(s) <= Len(t) /\ s = SubSeq(t, 1, Len(s))

\* the steps outside the loop over platforms
BrowserSteps == {"launch", "new_context", "add_init_script", "browser_close"}

NoBrowserFailure == \A k \in DOMAIN se_failures : se_failures[k].step \notin BrowserSteps

\* C3: a failure while processing one platform never stops the platform
\* loop: the platforms are entered in the order requested, and when search
\* returns and no step outside the loop has failed, sources_searched equals
\* the requested list, or ["batdongsan", "chotot"] when none was requested.
C3_PlatformLoopNeverStops ==
    /\ IsPrefixOf(se_sources_searched, Platforms(se_platforms))
    /\ se_pc = "done" /\ NoBrowserFailure => se_sources_searched = Platforms(se_platforms)

\* search has returned after a step of the first of two requested platforms
\* failed, and both platforms are in sources_searched
C3_Witness ==
    /\ se_pc = "done"
    /\ se_platforms = Some(<<"chotot", "batdongsan">>)
    /\ NoBrowserFailure
    /\ \E k \in DOMAIN se_failures :
        /\ se_failures[k].platform = "chotot"
        /\ se_failures[k].step \in {"rate_limit_wait", "new_page", "page_close"}
    /\ se_errors # <<>>
    /\ se_sources_searched = <<"chotot", "batdongsan">>

\* the address a platform's relative links are completed with
BaseUrl(platform) ==
    IF platform = "chotot" THEN "https://nha.chotot.com" ELSE "https://batdongsan.com.vn"

\* no district is extracted from the page for the item
NoDistrictExtracted(platform, item) ==
    IF platform = "chotot" THEN item.district = None ELSE BatdongsanDistrict(item) = None

\* C10: when the intent names a district, neither the chotot scrape nor
\* the batdongsan scrape returns a listing for which no district was
\* extracted from its page.
C10_NoListingWithoutDistrict ==
    \A k \in DOMAIN se_scrapes :
        LET s == se_scrapes[k]
        IN  TruthyStr(se_intent[1].district) =>
                \A j \in DOMAIN s.items :
                    NoDistrictExtracted(s.platform, s.items[j]) =>
                        \A n \in DOMAIN s.returned :
                            s.returned[n].source_url # AbsoluteUrl(BaseUrl(s.platform), s.items[j].href)

-----------------------------------------------------------------------------
(* _normalize_vietnamese_number and _parse_price_to_number.  A float is    *)
(* the decimal number m * 10^e, kept with m free of trailing zeros, so     *)
(* that two floats are equal exactly when their records are.  The product  *)
(* float(value) * multiplier is taken exactly; the binary product of the   *)
(* code may differ from it in the last place.                              *)

Dec(m, e) == [m |-> m, e |-> e]

RECURSIVE Norm(_)
\* the same number with m free of trailing zeros
Norm(d) ==
    IF d.m = 0 THEN Dec(0, 0)
    ELSE IF d.m % 10 = 0 THEN Norm(Dec(d.m \div 10, d.e + 1))
    ELSE d

RECURSIVE Pow10(_)
Pow10(k) == IF k = 0 THEN 1 ELSE 10 * Pow10(k - 1)

RECURSIVE KeepNumeric(_)
\* re.sub(r'[^0-9,.]', '', value)
KeepNumeric(s) ==
    IF s = "" THEN ""
    ELSE IF IsDigit(Head(s)) \/ Head(s) \in {",", "."} THEN Head(s) \o KeepNumeric(Tail(s))
    ELSE KeepNumeric(Tail(s))

\* str.count of a character
CountChar(s, c) == Cardinality({i \in 1..Len(s) : Ch(s, i) = c})

\* value.replace(a, b) for single characters
ReplaceChar(s, a, b) == [i \in 1..Len(s) |-> IF Ch(s, i) = a THEN b ELSE Ch(s, i)]

RECURSIVE Join(_)
\* the characters of a sequence of one-character strings, as a string
Join(cs) == IF cs = <<>> THEN "" ELSE Head(cs) \o Join(Tail(cs))

\* lines 1417-1429 with every comma taken for a thousands separator
SeparatorsCommaStripped(v) ==
    IF Contains(v, ",") /\ Contains(v, ".")
    THEN Join(ReplaceChar(Remove(v, "."), ",", "."))
    ELSE Remove(v, ",")

\* the separators of the digits, commas and dots that are left: with both,
\* the dots go and the commas become dots; with one comma followed by at
\* most two characters, the comma becomes a dot; else the commas go
Separators(v) ==
    IF Contains(v, ",") /\ Contains(v, ".")
    THEN Join(ReplaceChar(Remove(v, "."), ",", "."))
    ELSE IF Contains(v, ",")
    THEN LET comma == CHOOSE i \in 1..Len(v) : Ch(v, i) = ","
         IN  IF CountChar(v, ",") = 1 /\ Len(v) - comma <= 2
             THEN Join(ReplaceChar(v, ",", "."))
             ELSE Remove(v, ",")
    ELSE v

\* float(value) does not raise ValueError: digits with at most one dot
IsFloatText(v) ==
    /\ \E i \in 1..Len(v) : IsDigit(Ch(v, i))
    /\ \A i \in 1..Len(v) : IsDigit(Ch(v, i)) \/ Ch(v, i) = "."
    /\ CountChar(v, ".") <= 1

\* float(value) of such a text
FloatOf(v) ==
    IF ~Contains(v, ".") THEN Dec(ParseInt(v), 0)
    ELSE LET dot == CHOOSE i \in 1..Len(v) : Ch(v, i) = "."
         IN  Dec(ParseInt(SubSeq(v, 1, dot - 1) \o SubSeq(v, dot + 1, Len(v))), dot - Len(v))

\* the power of ten of the multiplier: tỷ before triệu
MultiplierExp(v) ==
    IF Contains(v, "tỷ") \/ Contains(v, "ty") THEN 9
    ELSE IF Contains(v, "triệu") \/ Contains(v, "tr") THEN 6
    ELSE 0

\* the value with the suffix of the multiplier taken out
WithoutSuffix(v) ==
    IF Contains(v, "tỷ") \/ Contains(v, "ty") THEN Strip(Remove(Remove(v, "tỷ"), "ty"))
    ELSE IF Contains(v, "triệu") \/ Contains(v, "tr") THEN Strip(Remove(Remove(v, "triệu"), "tr"))
    ELSE v

\* _normalize_vietnamese_number(value) for a str
NormalizeVietnameseNumber(value) ==
    IF value = "" THEN None
    ELSE LET lowered == Lower(Strip(value))
             numeric == Separators(KeepNumeric(WithoutSuffix(lowered)))
         IN  IF ~IsFloatText(numeric) THEN None
             ELSE LET f == FloatOf(numeric)
                      result == Norm(Dec(f.m, f.e + MultiplierExp(lowered)))
                  IN  IF result.m > 0 THEN Some(result) ELSE None

\* int(val) of a float that is not negative: the digits after the point go
IntOf(d) ==
    IF d.e >= 0 THEN d
    ELSE IF -d.e > 9 THEN Dec(0, 0)
    ELSE Norm(Dec(d.m \div Pow10(-d.e), 0))

negotiation_keywords == <<"thỏa thuận", "liên hệ", "thoả thuận", "lien he">>

\* _parse_price_to_number(price_text) for a str
ParsePriceToNumber(price_text) ==
    IF price_text = "" THEN None
    ELSE IF ContainsAny(Lower(price_text), negotiation_keywords) THEN None
    ELSE LET val == NormalizeVietnameseNumber(price_text)
         IN  IF val # None THEN Some(IntOf(val[1])) ELSE None

\* the longest run of digits in the whole part of a text of the runs
MaxDigits == 2

RECURSIVE DigitStrings(_)
\* the strings of n digits out of 0, 1 and 5
DigitStrings(n) ==
    IF n = 0 THEN {""} ELSE {d \o s : d \in {"0", "1", "5"}, s \in DigitStrings(n - 1)}

NumWholes == UNION {DigitStrings(n) : n \in 1..MaxDigits}

NumFractions ==
    {"", ",5", ".5", ",50", ".05", ",200", ".200", ".234,56", ",234.56", ",", ".", ".2.3", ",2,3"}

NumSuffixes == {"", " tỷ", " TỶ", "ty", " triệu", "tr", " m2", " tỷ thỏa thuận", " Triệu (Liên Hệ)"}

\* the texts of the runs: a sign, a whole part, a fraction, a suffix; and
\* texts without a number
NumTexts ==
    {sign \o whole \o fraction \o suffix :
        sign \in {"", "-"}, whole \in NumWholes, fraction \in NumFractions, suffix \in NumSuffixes}
    \cup {"", " ", "Thỏa thuận", "THOẢ THUẬN", "Liên hệ", "lien he", "giá tốt", "tỷ", ".", "1.200", "2,5 tỷ", "67,5", "3,5 tỷ"}

NmInit ==
    /\ nm_pc = "start"
    /\ nm_fn = ""
    /\ nm_text = ""
    /\ nm_result = None
    /\ nmRestIdle

\* a call of _normalize_vietnamese_number(value) with a text of the runs
NmNormalize ==
    /\ nm_pc = "start"
    /\ \E value \in NumTexts :
        /\ nm_text' = value
        /\ nm_result' = NormalizeVietnameseNumber(value)
    /\ nm_pc' = "done"
    /\ nm_fn' = "normalize"
    /\ UNCHANGED nmRest

\* a call of _parse_price_to_number(price_text) with a text of the runs
NmParsePrice ==
    /\ nm_pc = "start"
    /\ \E price_text \in NumTexts :
        /\ nm_text' = price_text
        /\ nm_result' = ParsePriceToNumber(price_text)
    /\ nm_pc' = "done"
    /\ nm_fn' = "price"
    /\ UNCHANGED nmRest

NmNext == NmNormalize \/ NmParsePrice

SpecNumber == NmInit /\ [][NmNext]_vars

-----------------------------------------------------------------------------
(* Claims about the numeric normalizer *)

\* the text is digits, a dot and exactly three digits, with no comma
IsDotThousands(t) ==
    /\ Len(t) >= 5
    /\ Ch(t, Len(t) - 3) = "."
    /\ \A i \in 1..Len(t) : i # Len(t) - 3 => IsDigit(Ch(t, i))

\* C11: _normalize_vietnamese_number reads a dot followed by exactly three
\* digits, when no comma is present, as a thousands separator: "N.DDD" is
\* N * 1000 + DDD, so "1.200" is 1200.
C11_DotIsThousands ==
    (nm_pc = "done" /\ nm_fn = "normalize" /\ IsDotThousands(nm_text)) =>
        LET n == ParseInt(Remove(nm_text, "."))
        IN  n > 0 => nm_result = Some(Norm(Dec(n, 0)))

\* the text has a digit
HasDigit(t) == \E i \in 1..Len(t) : IsDigit(Ch(t, i))

\* the text is a number written with a leading minus sign
WrittenNegative(t) == Len(t) >= 2 /\ Ch(t, 1) = "-" /\ IsDigit(Ch(t, 2))

\* C12: _normalize_vietnamese_number returns None whenever the written
\* number is zero or negative (a leading minus sign is honoured, so
\* "-5 triệu" gives None), and for text with no parseable number.
C12_NonPositiveIsNone ==
    (nm_pc = "done" /\ nm_fn = "normalize") =>
        /\ WrittenNegative(nm_text) => nm_result = None
        /\ ~HasDigit(nm_text) => nm_result = None
        /\ nm_result # None => nm_result[1].m > 0

\* C13: _parse_price_to_number returns None or a strictly positive integer,
\* and None whenever the text contains a negotiation keyword in any letter
\* case, whatever digits and suffix it also has.
C13_PriceNoneOrPositive ==
    (nm_pc = "done" /\ nm_fn = "price") =>
        /\ nm_result # None => nm_result[1].e >= 0 /\ nm_result[1].m > 0
        /\ ContainsAny(Lower(nm_text), negotiation_keywords) => nm_result = None

-----------------------------------------------------------------------------
(* _fallback_parse_query on its own: queries put together from a property *)
(* type, a place, a price, a bedroom count and a tail.                     *)

\* the largest bedroom count of a query of the runs
MaxBedrooms == 2

FbTypes == {"", "chung cư ", "Can ho ", "villa "}

FbPlaces == {"", "Cầu Giấy ", "thanh xuan ", "gần Hồ Tây "}

\* the numerals X of the runs, each with X * 10^9 in millions of VND
FbNumerals ==
    <<<<"5", 5000>>, <<"12", 12000>>, <<"3.5", 3500>>, <<"4.1", 4100>>, <<"2.01", 2010>>, <<"2,5", 2500>>>>

FbPrices ==
    {"", "2-3 tỷ ", "Dưới12tỷ "} \cup {"dưới " \o FbNumerals[k][1] \o " tỷ " : k \in 1..Len(FbNumerals)}

FbBedrooms == {"", "3PN"} \cup {Ch(Digits, n + 1) \o " phòng ngủ" : n \in 1..MaxBedrooms}

FbTails == {"", " cho thuê", " hcm", " Sài Gòn", " tp Hồ Chí Minh"}

FbQueries ==
    {type \o place \o price \o bedrooms \o tail :
        type \in FbTypes, place \in FbPlaces, price \in FbPrices,
        bedrooms \in FbBedrooms, tail \in FbTails}

FbInit ==
    /\ fb_pc = "start"
    /\ fb_query \in FbQueries
    /\ fb_result = None
    /\ fbRestIdle

\* a call of _fallback_parse_query(fb_query)
FbParse ==
    /\ fb_pc = "start"
    /\ fb_pc' = "done"
    /\ fb_result' = Some(FallbackParseQuery(fb_query))
    /\ UNCHANGED fb_query
    /\ UNCHANGED fbRest

FbNext == FbParse

SpecFallback == FbInit /\ [][FbNext]_vars

-----------------------------------------------------------------------------
(* Claims about the regex fallback *)

\* the query words its price as 'dưới X tỷ' with the k-th numeral
SaysUnder(q, k) == Contains(Lower(q), "dưới " \o FbNumerals[k][1] \o " tỷ")

\* the query words its bedrooms as 'n phòng ngủ'
SaysBedrooms(q, n) == Contains(Lower(q), Ch(Digits, n + 1) \o " phòng ngủ")

\* a property-type keyword, a district name and no landmark alias, no rent
\* keyword and no price range
PlainQuery(q) ==
    /\ FirstKeyIn(ptype_map_sorted, Lower(q)) # None
    /\ FirstKeyIn(district_map_sorted, Lower(q)) # None
    /\ FirstKeyIn(landmark_map, Lower(q)) = None
    /\ ~Contains(Lower(q), "thuê")

\* the fields of the claim, but for the price
PlainFields(q, n) ==
    /\ fb_result[1].property_type = FirstKeyIn(ptype_map_sorted, Lower(q))
    /\ fb_result[1].district = FirstKeyIn(district_map_sorted, Lower(q))
    /\ fb_result[1].price_min = None
    /\ fb_result[1].bedrooms = Some(n)
    /\ fb_result[1].intent = Some("mua")

\* C14 as stated: for a query with a property-type keyword, a district name
\* (and no landmark alias), 'dưới X tỷ', 'N phòng ngủ' and no rent keyword,
\* the regex fallback returns the canonical property type and district,
\* price_max = X * 10^9 with price_min absent, bedrooms = N and intent 'mua'.
C14_PlainQuery_Original ==
    fb_pc = "done" =>
        \A k \in 1..Len(FbNumerals), n \in 1..MaxBedrooms :
            (PlainQuery(fb_query) /\ SaysUnder(fb_query, k) /\ SaysBedrooms(fb_query, n)) =>
                /\ PlainFields(fb_query, n)
                /\ fb_result[1].price_max = Some(FbNumerals[k][2])

\* the numeral is written with digits only, or with a dot as decimal point
IsWhole(x) == \A i \in 1..Len(x) : IsDigit(Ch(x, i))

IsDotDecimal(x) == \A i \in 1..Len(x) : IsDigit(Ch(x, i)) \/ Ch(x, i) = "."

\* C14 amended: the same, for X written as a whole number or with a dot as
\* decimal point; price_max is X * 10^9 for a whole X and X * 10^9 or one
\* less for a decimal X.  With a decimal comma the price is not recognised
\* and price_max is absent.
C14_PlainQuery ==
    fb_pc = "done" =>
        \A k \in 1..Len(FbNumerals), n \in 1..MaxBedrooms :
            (PlainQuery(fb_query) /\ SaysUnder(fb_query, k) /\ SaysBedrooms(fb_query, n)) =>
                /\ PlainFields(fb_query, n)
                /\ IsWhole(FbNumerals[k][1]) => fb_result[1].price_max = Some(FbNumerals[k][2])
                /\ IsDotDecimal(FbNumerals[k][1]) =>
                        fb_result[1].price_max \in {Some(FbNumerals[k][2]), Some(FbNumerals[k][2] - 1)}
                /\ ~IsDotDecimal(FbNumerals[k][1]) => fb_result[1].price_max = None

\* the query of the claim's example has been parsed
C14_Witness ==
    /\ fb_pc = "done"
    /\ fb_query = "chung cư Cầu Giấy dưới 5 tỷ 2 phòng ngủ"
    /\ fb_result[1].property_type = Some("chung cư")
    /\ fb_result[1].district = Some("Cầu Giấy")
    /\ fb_result[1].price_max = Some(5 * Billion)
    /\ fb_result[1].bedrooms = Some(2)

\* the query names the alternate city
NamesAlternateCity(q) ==
    Contains(Lower(q), "hồ chí minh") \/ Contains(Lower(q), "sài gòn") \/ Contains(Lower(q), "hcm")

\* C20: the regex fallback sets the city to 'Hà Nội' when the query names no
\* other city, and to the alternate city when the query contains one of the
\* keywords 'hồ chí minh', 'sài gòn', 'hcm'.
C20_AlternateCity ==
    fb_pc = "done" =>
        /\ ~NamesAlternateCity(fb_query) => fb_result[1].city = Some("Hà Nội")
        /\ NamesAlternateCity(fb_query) => fb_result[1].city = Some("Hồ Chí Minh")

-----------------------------------------------------------------------------
(* Claims about the result of search *)

RECURSIVE ScrapedListings(_)
\* the listings the scrapers returned, platform after platform
ScrapedListings(scrapes) ==
    IF scrapes = <<>> THEN <<>>
    ELSE Head(scrapes).returned \o ScrapedListings(Tail(scrapes))

-----------------------------------------------------------------------------
(* Claims about the fields of the intent parse_query returns *)

\* the value of location.city in the object the answer of a model parses
\* to, JNull when the answer holds no such object
AnsweredCity(c) ==
    LET parsed == SafeParseJson(c)
    IN  IF parsed.raised \/ parsed.value = None \/ parsed.value[1].t # "obj" THEN JNull
        ELSE LET location == DictGet(parsed.value[1].o, "location", JObj(EmptyDict))
             IN  IF location.t # "obj" THEN JNull
                 ELSE DictGet(location.o, "city", JStr("Hà Nội"))

\* the city is a str with a "|" in it
HasBar(city) == city # None /\ Contains(city[1], "|")

\* C16: the city of every SearchIntent parse_query returns contains no "|",
\* whichever path produced it; and when the intent was built from an answer
\* whose city names alternatives separated by "|", the city is the first
\* alternative, trimmed.
C16_CityHasNoBar ==
    pq_pc = "done" =>
        /\ ~HasBar(pq_result[1].city)
        /\ pq_source \in {"primary", "ollama"} /\ HasBar(ToPy(AnsweredCity(pq_content[1]))) =>
                pq_result[1].city = Some(Strip(SplitFirst(AnsweredCity(pq_content[1]).s, "|")))

\* the primary model answered the city "Hà Nội | Hồ Chí Minh" and
\* parse_query returned the city "Hà Nội"
C16_Witness ==
    /\ pq_pc = "done"
    /\ pq_source = "primary"
    /\ AnsweredCity(pq_content[1]) = JStr("Hà Nội | Hồ Chí Minh")
    /\ pq_result[1].city = Some("Hà Nội")

\* C17: whenever the answer of the model parses to an intent in which
\* district, price_min and price_max are all absent (the validation of
\* line 302 raised its ValueError, the one ValueError of parse_query),
\* parse_query returns exactly what the regex fallback returns for the
\* query, whatever the type of the configured model.
C17_EmptyParseFallsBack ==
    pq_pc = "done" /\ pq_exc = Some("ValueError") =>
        pq_result = Some(FallbackParseQuery(pq_query))

\* SearchIntent.from_dict of the object the answer of the primary model
\* parses to, for an answer that parse_query returned an intent from
ModelIntent(c) == FromDict(SafeParseJson(c).value[1]).value

\* the fields of a SearchIntent
IntentFields == DOMAIN DefaultIntent

\* C18: when the parse of the primary model's answer passes the validation
\* and has no district, parse_query returns the model's intent with only the
\* district possibly changed: the district is the regex fallback's district
\* if the fallback finds one and stays as the model left it otherwise, and
\* every other field has exactly the model's value.
C18_OnlyDistrictBackfilled ==
    pq_pc = "done" /\ pq_source = "primary" /\ ~TruthyStr(ModelIntent(pq_content[1]).district) =>
        LET model == ModelIntent(pq_content[1])
            fallback == FallbackParseQuery(pq_query)
        IN  /\ \A f \in IntentFields \ {"district"} : pq_result[1][f] = model[f]
            /\ pq_result[1].district = IF TruthyStr(fallback.district)
                                       THEN fallback.district
                                       ELSE model.district

\* the model answered a minimum price and a rent intent without a district
\* for a query that names Cầu Giấy, a price limit and a bedroom count: the
\* intent returned has the district of the fallback and nothing else of it
C18_Witness ==
    /\ pq_pc = "done"
    /\ pq_source = "primary"
    /\ pq_query = "chung cư Cầu Giấy dưới 5 tỷ 2 phòng ngủ"
    /\ ModelIntent(pq_content[1]).district = None
    /\ ModelIntent(pq_content[1]).price_min = Some(2000)
    /\ pq_result[1].district = Some("Cầu Giấy")
    /\ pq_result[1].price_min = Some(2000)
    /\ pq_result[1].price_max = None
    /\ pq_result[1].bedrooms = None
    /\ pq_result[1].intent = Some("thuê")

-----------------------------------------------------------------------------
(* _safe_parse_json on its own.  A text is the sequence of its pieces,     *)
(* joined by single blanks: words, the two fences, an object and an array  *)
(* that are JSON, and a {...} and a [...] that are not.                    *)

Words == "Kết quả:"

\* three backquotes and json; a string of the module cannot hold a
\* backquote, it is written as an apostrophe
FenceJson == "'''json"

Fence == "'''"

Object == "{\"bedrooms\": 2}"

BadObject == "{bedrooms: 2}"

Array == "[\"chung cư\"]"

BadArray == "[chung cư]"

SjPieces == {Words, FenceJson, Fence, Object, BadObject, Array, BadArray}

MaxPieces == 3

SjTexts == UNION {[1..n -> SjPieces] : n \in 0..MaxPieces}

\* json.loads of one piece
LoadsPiece(piece) ==
    CASE piece = Object -> Loads(JObj([bedrooms |-> JNum(2)]))
      [] piece = Array -> Loads(JArr(<<"chung cư">>))
      [] OTHER -> Unparsable

\* json.loads(json_str.strip()): JSON is one value and nothing else
LoadsPieces(pieces) ==
    IF Len(pieces) = 1 THEN LoadsPiece(pieces[1]) ELSE Unparsable

RECURSIVE FirstPiece(_, _, _)
\* the index of the first piece of text at or after i that is in set, 0 if none
FirstPiece(text, set, i) ==
    IF i > Len(text) THEN 0
    ELSE IF text[i] \in set THEN i
    ELSE FirstPiece(text, set, i + 1)

\* re.search(r'```json\s*(.*?)\s*```', text, re.DOTALL): group 1 runs from
\* the first ```json to the next three backquotes, those of a ```json too
FencedMatch(text) ==
    LET i == FirstPiece(text, {FenceJson}, 1)
        j == FirstPiece(text, {Fence, FenceJson}, i + 1)
    IN  IF i = 0 \/ j = 0 THEN None
        ELSE Some(LoadsPieces(SubSeq(text, i + 1, j - 1)))

\* re.search(r'```\s*(.*?)\s*```', text, re.DOTALL): group 1 runs from the
\* first three backquotes to the next; after ```json it starts with "json"
BlockMatch(text) ==
    LET i == FirstPiece(text, {Fence, FenceJson}, 1)
        j == FirstPiece(text, {Fence, FenceJson}, i + 1)
    IN  IF i = 0 \/ j = 0 THEN None
        ELSE Some(LoadsPieces((IF text[i] = FenceJson THEN <<"json">> ELSE <<>>)
                              \o SubSeq(text, i + 1, j - 1)))

\* re.search(r'\{[^{}]*\}', text, re.DOTALL): group 0 is the first {...}
BraceMatch(text) ==
    LET i == FirstPiece(text, {Object, BadObject}, 1)
    IN  IF i = 0 THEN None ELSE Some(LoadsPiece(text[i]))

\* what the steps of _safe_parse_json find in the text
TextContent(text) ==
    Content(TRUE, text = <<>>, LoadsPieces(text),
            FencedMatch(text), BlockMatch(text), BraceMatch(text))

SjInit ==
    /\ sj_pc = "start"
    /\ sj_text \in SjTexts
    /\ sj_result = None
    /\ sjRestIdle

\* parsed = self._safe_parse_json(content)
SjParse ==
    /\ sj_pc = "start"
    /\ sj_result' = SafeParseJson(TextContent(sj_text)).value
    /\ sj_pc' = "done"
    /\ UNCHANGED sj_text
    /\ UNCHANGED sjRest

SjNext == SjParse

SpecJson == SjInit /\ [][SjNext]_vars

-----------------------------------------------------------------------------
(* Claims about _safe_parse_json *)

\* the first [...] of the text and what json.loads makes of it
BracketSpan(text) ==
    LET i == FirstPiece(text, {Array, BadArray}, 1)
    IN  IF i = 0 THEN None ELSE Some(LoadsPiece(text[i]))

\* the candidates in the order of the claim: the whole trimmed text, a
\* ```json block, any ``` block, a bare {...} span, a bare [...] span
Candidates(text) ==
    <<Some(LoadsPieces(text)), FencedMatch(text), BlockMatch(text),
      BraceMatch(text), BracketSpan(text)>>

\* the candidates that are there and parse
Parsing(candidates) ==
    {k \in DOMAIN candidates : candidates[k] # None /\ candidates[k][1].ok}

\* C19: _safe_parse_json returns the value of the first candidate that
\* parses, the candidates being in this order the whole trimmed response, a
\* ```json fenced block, any ``` code block, a bare {...} span and a bare
\* [...] span; it returns None only when none of them parses.
C19_FirstCandidateThatParses ==
    sj_pc = "done" =>
        LET candidates == Candidates(sj_text)
            parsing == Parsing(candidates)
        IN  IF parsing = {} THEN sj_result = None
            ELSE sj_result = PyOf(candidates[CHOOSE k \in parsing : \A m \in parsing : k <= m][1].j)

-----------------------------------------------------------------------------
(* Claims about the district of the intent parse_query returns *)

\* the display names the landmark and the district dictionaries hold
CanonicalDistricts ==
    {landmark_map[k][2] : k \in DOMAIN landmark_map}
        \cup {district_map_sorted[k][2] : k \in DOMAIN district_map_sorted}

\* C21: in every SearchIntent parse_query returns, the district is absent or
\* one of the canonical display names of the landmark and district
\* dictionaries, never the text the model produced or a fragment of the
\* query.
C21_DistrictIsCanonical ==
    pq_pc = "done" =>
        \/ ~TruthyStr(pq_result[1].district)
        \/ pq_result[1].district[1] \in CanonicalDistricts

-----------------------------------------------------------------------------
(* Claims about the separators and suffixes of the numeric normalizer *)

\* the text ends in t
EndsIn(s, t) == Len(s) >= Len(t) /\ SubSeq(s, Len(s) - Len(t) + 1, Len(s)) = t

\* the power of ten the claim gives the suffix of a trimmed, lowered text
SuffixExp(t) == IF EndsIn(t, "tỷ") THEN 9 ELSE IF EndsIn(t, "triệu") THEN 6 ELSE 0

\* the trimmed, lowered text without that suffix
Numeral(t) ==
    IF EndsIn(t, "tỷ") THEN Strip(SubSeq(t, 1, Len(t) - 2))
    ELSE IF EndsIn(t, "triệu") THEN Strip(SubSeq(t, 1, Len(t) - 5))
    ELSE t

\* a numeral the claim reads: digits after a leading digit, with no
\* separator, or with commas only, or with dots and one comma
IsReadable(n) ==
    /\ n # "" /\ IsDigit(Ch(n, 1))
    /\ \A i \in 1..Len(n) : IsDigit(Ch(n, i)) \/ Ch(n, i) \in {",", "."}
    /\ Contains(n, ".") => CountChar(n, ",") = 1

\* the digits of n with its one comma read as the decimal point
CommaDecimal(n) ==
    LET comma == CHOOSE i \in 1..Len(n) : Ch(n, i) = ","
    IN  Dec(ParseInt(Remove(n, ",")), comma - Len(n))

\* the number the claim reads in a readable numeral
Reading(n) ==
    IF Contains(n, ",") /\ Contains(n, ".") THEN CommaDecimal(Remove(n, "."))
    ELSE IF CountChar(n, ",") = 1 /\ Len(n) - (CHOOSE i \in 1..Len(n) : Ch(n, i) = ",") <= 2
    THEN CommaDecimal(n)
    ELSE Dec(ParseInt(Remove(n, ",")), 0)

-----------------------------------------------------------------------------
(* _rate_limit_wait.  Time is in whole seconds.  A caller is a search that *)
(* calls the limiter again and again, each call after the one before has   *)
(* returned; the callers share the agent's request_times.  The lines from  *)
(* time.time() to the await run without interruption: the event loop       *)
(* switches tasks at an await only.                                        *)

\* self.rate_limit_per_minute
rate_limit_per_minute == 15

\* deque(maxlen=30)
request_times_maxlen == 30

\* the 60 of "one_minute_ago = now - 60" and of "60 - (now - oldest) + 1"
Minute == 60

\* the searches that run on one agent at the same time, at most
MaxCallers == 2

\* the last second of the runs
MaxClock == 61

\* the seconds that pass between two steps of the callers
ClockSteps == {30, 31}

\* deque.append(x) with maxlen: a full deque drops its leftmost element
DequeAppend(deque, x, maxlen) ==
    IF Len(deque) < maxlen THEN Append(deque, x) ELSE Append(Tail(deque), x)

\* [t for t in self.request_times if t > one_minute_ago]
RecentRequests(request_times, now) ==
    SelectSeq(request_times, LAMBDA t : t > now - Minute)

\* min(recent_requests)
MinOf(times) ==
    CHOOSE t \in {times[k] : k \in DOMAIN times} : \A k \in DOMAIN times : t <= times[k]

\* _rate_limit_wait without its lines 1383-1389: no call sleeps
WaitTimeNever(request_times, now) == 0

\* the seconds a call made now sleeps, 0 when it does not sleep
WaitTime(request_times, now) ==
    LET recent_requests == RecentRequests(request_times, now)
    IN  IF Len(recent_requests) >= rate_limit_per_minute
        THEN LET wait_time == Minute - (now - MinOf(recent_requests)) + 1
             IN  IF wait_time > 0 THEN wait_time ELSE 0
        ELSE 0

RlInit ==
    /\ rl_now = 0
    /\ rl_request_times = <<>>
    /\ \E n \in 1..MaxCallers :
        /\ rl_pc = [c \in 1..n |-> "idle"]
        /\ rl_wake = [c \in 1..n |-> 0]
    /\ rl_released = <<>>
    /\ rlRestIdle

\* caller c calls _rate_limit_wait: up to the await, or to the return
RlCall(c) ==
    /\ rl_pc[c] = "idle"
    /\ LET request_times == DequeAppend(rl_request_times, rl_now, request_times_maxlen)
           wait_time == WaitTime(request_times, rl_now)
       IN  /\ rl_request_times' = request_times
           /\ IF wait_time > 0
              THEN /\ rl_pc' = [rl_pc EXCEPT ![c] = "sleeping"]
                   /\ rl_wake' = [rl_wake EXCEPT ![c] = rl_now + wait_time]
                   /\ UNCHANGED rl_released
              ELSE /\ rl_released' = Append(rl_released, rl_now)
                   /\ UNCHANGED <<rl_pc, rl_wake>>
    /\ UNCHANGED rl_now
    /\ UNCHANGED rlRest

\* await asyncio.sleep(wait_time) of caller c is over: the call returns
RlWake(c) ==
    /\ rl_pc[c] = "sleeping"
    /\ rl_now >= rl_wake[c]
    /\ rl_pc' = [rl_pc EXCEPT ![c] = "idle"]
    /\ rl_released' = Append(rl_released, rl_now)
    /\ UNCHANGED <<rl_now, rl_request_times, rl_wake>>
    /\ UNCHANGED rlRest

\* time passes
RlTick ==
    /\ \E d \in ClockSteps :
        /\ rl_now + d <= MaxClock
        /\ rl_now' = rl_now + d
    /\ UNCHANGED <<rl_request_times, rl_pc, rl_wake, rl_released>>
    /\ UNCHANGED rlRest

RlNext ==
    \/ \E c \in DOMAIN rl_pc : RlCall(c)
    \/ \E c \in DOMAIN rl_pc : RlWake(c)
    \/ RlTick

SpecRate == RlInit /\ [][RlNext]_vars

-----------------------------------------------------------------------------
(* Claims about the rate limiter *)

\* the calls that returned in the 60 seconds that end with the return of
\* call k, that call included: at a time r with r_k - 60 < r <= r_k
ReleasedBefore(k) ==
    {j \in DOMAIN rl_released :
        rl_released[k] - Minute < rl_released[j] /\ rl_released[j] <= rl_released[k]}

\* no window of 60 seconds holds more returns than rate_limit_per_minute
CeilingKept ==
    \A k \in DOMAIN rl_released : Cardinality(ReleasedBefore(k)) <= rate_limit_per_minute

\* C23: for one caller that calls _rate_limit_wait again and again, each
\* call at any time after the one before has returned, the number of calls
\* that return within any window of 60 seconds never exceeds
\* rate_limit_per_minute (15).
C23_OneCallerCeiling ==
    Len(rl_pc) = 1 => CeilingKept

\* one caller: fourteen calls returned at second 0, the fifteenth, made at
\* second 0, slept and returned at second 61, and fourteen more calls
\* returned at second 61
C23_Witness ==
    /\ Len(rl_pc) = 1
    /\ Len(rl_released) = 29
    /\ rl_released[14] = 0
    /\ rl_request_times[15] = 0
    /\ rl_released[15] = 61
    /\ rl_released[29] = 61
    /\ Cardinality(ReleasedBefore(29)) = rate_limit_per_minute

\* C24: when several searches run at the same time on one agent, the calls
\* of _rate_limit_wait that return within any window of 60 seconds still
\* number at most rate_limit_per_minute: the callers that slept do not
\* return together in a burst above the ceiling.
C24_ConcurrentCeiling ==
    Len(rl_pc) >= 2 => CeilingKept

-----------------------------------------------------------------------------
(* Claims about the order of the steps of search *)

\* the stage of search a position belongs to: 1 the intent, 2 the
\* scraping, 3 the deduplication and truncation (one statement), 4 DONE
Stage(pc) ==
    CASE pc \in {"start", "parsing"} -> 1
      [] pc = "dedup" -> 3
      [] pc = "done" -> 4
      [] OTHER -> 2

\* a step of search in the order of the stages
OrderedStep ==
    \* no stage is gone back to, and the deduplication follows the scraping
    /\ Stage(se_pc') >= Stage(se_pc)
    /\ se_pc' = "dedup" => se_pc = "close_browser"
    /\ se_pc = "dedup" => se_pc' = "done"
    /\ se_listings' # se_listings => se_pc = "dedup"
    \* the platforms are gone through one by one in the order requested
    /\ se_i' \in {se_i, se_i + 1}
    /\ se_scrapes' # se_scrapes =>
            /\ se_pc = "scrape" /\ se_pc' = "page_close" /\ se_i' = se_i
            /\ se_scrapes' = Append(se_scrapes, se_scrapes'[Len(se_scrapes')])
            /\ se_scrapes'[Len(se_scrapes')].platform = Platforms(se_platforms)[se_i]
    \* a scrape is entered from the opening of its page, that from the wait
    \* of the rate limiter, that from the head of the loop, for one platform
    /\ se_pc' = "scrape" => se_pc = "new_page" /\ se_i' = se_i
    /\ se_pc' = "new_page" => se_pc = "rate_limit_wait" /\ se_i' = se_i
    /\ se_pc' = "rate_limit_wait" => se_pc = "loop" /\ se_i' = se_i
    /\ se_pc = "scrape" => se_pc' = "page_close"
    /\ se_pc' = "loop" /\ se_pc # "add_init_script" => se_i' = se_i + 1

\* C25: within one search the stages follow each other in the order intent
\* parsed, scraping, deduplicated and truncated, DONE, none is gone back to
\* and nothing is retried; the platforms are scraped one at a time in the
\* order requested, and each scrape comes after its own wait of the rate
\* limiter.
C25_StagesInOrder == [][OrderedStep]_vars

\* search has returned after two platforms were scraped one after the
\* other and no step failed
C25_Witness ==
    /\ se_pc = "done"
    /\ se_failures = <<>>
    /\ se_sources_searched = <<"batdongsan", "chotot">>
    /\ Len(se_scrapes) = 2
    /\ se_scrapes[1].platform = "batdongsan"
    /\ se_scrapes[2].platform = "chotot"
    /\ se_i = 3

\* the loop moves on from platform se_i to the next one, or out of the loop
MovesOn == se_pc' = "loop" /\ se_i' = se_i + 1 /\ se_i >= 1

\* a step that moves on from a platform that is not the last comes out of
\* the cooldown, and no cooldown is entered after the last platform
CooldownStep ==
    LET platforms == Platforms(se_platforms)
    IN  Len(platforms) >= 2 =>
            /\ MovesOn /\ se_i < Len(platforms) => se_pc = "cooldown"
            /\ se_pc' = "cooldown" => se_i' < Len(platforms)

\* C26: for every requested list of at least two platforms, the cooldown
\* sleep lies between the end of each platform's scrape and the start of
\* the next one's, and no cooldown follows the last platform, whatever the
\* names in the list, a name that occurs twice included.
C26_CooldownBetweenPlatforms == [][CooldownStep]_vars

-----------------------------------------------------------------------------
(* search_with_progress: the two calls of the callback and, between them,  *)
(* the search it awaits, which runs as the steps of search above.          *)

\* the calls of search_with_progress: query, progress_callback given or
\* not, max_results, platforms
WpCalls ==
    {<<"mua nhà", TRUE, 20, None>>,
     <<"mua nhà", FALSE, 20, None>>,
     <<"mua nhà", TRUE, 20, Some(<<"chotot">>)>>,
     <<"mua nhà", TRUE, 1, Some(<<"chotot", "batdongsan">>)>>}

WpInit ==
    /\ wp_pc = "start"
    /\ \E call \in WpCalls :
        /\ wp_query = call[1]
        /\ wp_callback = call[2]
        /\ wp_max_results = call[3]
        /\ wp_platforms = call[4]
    /\ wp_events = <<>>
    /\ wpRestIdle

\* if progress_callback: await progress_callback({"percent": 10, ...})
WpFirstEvent ==
    /\ wp_pc = "start"
    /\ wp_pc' = "call_search"
    /\ wp_events' = IF wp_callback THEN Append(wp_events, 10) ELSE wp_events
    /\ UNCHANGED <<wp_query, wp_callback, wp_max_results, wp_platforms>>
    /\ UNCHANGED <<pqVars, seVars>>
    /\ UNCHANGED wpRest

\* result = await self.search(query, max_results): search starts with
\* these two arguments and the defaults of the others
WpCallSearch ==
    /\ wp_pc = "call_search"
    /\ wp_pc' = "searching"
    /\ se_pc' = "start"
    /\ se_query' = wp_query
    /\ se_max_results' = wp_max_results
    /\ se_platforms' = None
    /\ se_intent_arg' = None
    /\ UNCHANGED <<se_intent, se_browser, se_page_open, se_i, se_pending,
                   se_all_listings, seResult, se_failures, se_scrapes>>
    /\ UNCHANGED <<wp_query, wp_callback, wp_max_results, wp_platforms, wp_events>>
    /\ UNCHANGED pqVars
    /\ UNCHANGED wpRest

\* search has returned: if progress_callback: await
\* progress_callback({"percent": 100, ...}); return result
WpSecondEvent ==
    /\ wp_pc = "searching"
    /\ se_pc = "done"
    /\ wp_pc' = "done"
    /\ wp_events' = IF wp_callback THEN Append(wp_events, 100) ELSE wp_events
    /\ UNCHANGED <<wp_query, wp_callback, wp_max_results, wp_platforms>>
    /\ UNCHANGED <<pqVars, seVars>>
    /\ UNCHANGED wpRest

\* the steps of search_with_progress and of the search inside it, which is
\* never given an intent
WpNext ==
    \/ WpFirstEvent
    \/ WpCallSearch
    \/ WpSecondEvent
    \/ SeCallParse
    \/ SeParseReturns
    \/ SeLaunch
    \/ SeNewContext
    \/ SeAddInitScript
    \/ SeLoop
    \/ SeRateLimitWait
    \/ SeNewPage
    \/ SeScrapePage
    \/ SeScrapeNavigationFails
    \/ SePageClose
    \/ SeCooldown
    \/ SeCloseBrowser
    \/ SeDedup
    \/ PqNext

SpecProgress == WpInit /\ [][WpNext]_vars

-----------------------------------------------------------------------------
(* Claims about search_with_progress *)

\* C27: search_with_progress(query, progress_callback, max_results,
\* platforms) scrapes exactly the platforms of its platforms argument: the
\* search it awaits is search(query, max_results, platforms), whose result
\* it returns, and a callback is called with 10 percent before that search
\* starts and with 100 percent after it has returned.
C27_ProgressSearchesPlatforms ==
    /\ wp_pc \in {"searching", "done"} =>
            /\ se_query = wp_query
            /\ se_max_results = wp_max_results
            /\ se_platforms = wp_platforms
            /\ IsPrefixOf(se_sources_searched, Platforms(wp_platforms))
    /\ wp_pc = "done" /\ NoBrowserFailure => se_sources_searched = Platforms(wp_platforms)
    /\ wp_callback =>
            /\ wp_pc \in {"call_search", "searching"} => wp_events = <<10>>
            /\ wp_pc = "done" => wp_events = <<10, 100>>
    /\ ~wp_callback => wp_events = <<>>

-----------------------------------------------------------------------------
(* Claims about the seen_urls set of one platform scrape *)

\* the source URLs of a list of listings
SourceUrls(listings) == [k \in DOMAIN listings |-> listings[k].source_url]

\* no two entries of a sequence are equal
NoRepeat(seq) == \A i, j \in DOMAIN seq : i < j => seq[i] # seq[j]

\* C28: one platform scrape never returns two listings with the same
\* source_url, whether the hrefs of the page are absolute or relative
\* (starting with "/"): seen_urls rejects every repeated link.
C28_NoRepeatedSourceUrl ==
    \A k \in DOMAIN se_scrapes : NoRepeat(SourceUrls(se_scrapes[k].returned))

-----------------------------------------------------------------------------
(* Claims about the browser of _fallback_direct_scrape *)

\* C29: a browser that _fallback_direct_scrape launched has been closed
\* when search has returned, on every path out of the function: normal
\* completion, a platform's processing raising, and a failure of
\* browser.new_context or of context.add_init_script.
C29_BrowserClosedOnReturn ==
    se_pc = "done" => se_browser # "open"

-----------------------------------------------------------------------------
(* Claims about the chotot scraper and the bedroom count of the intent *)

\* the scrapes of chotot that returned a list
ChototScrapes == {k \in DOMAIN se_scrapes : se_scrapes[k].platform = "chotot" /\ ~se_scrapes[k].nav_failed}

\* C30: whenever the intent has a bedroom count (a count other than 0, which
\* the code treats as none), the chotot scraper returns an empty list
\* whatever the page holds: no listing it extracts has a bedroom count, and
\* the filter rejects every listing without one.
C30_ChototEmptyForBedrooms ==
    \A k \in ChototScrapes :
        LET extracted == ChototExtract(se_scrapes[k].items, se_intent[1])
        IN  /\ \A n \in DOMAIN extracted : extracted[n].bedrooms = None
            /\ TruthyInt(se_intent[1].bedrooms) => se_scrapes[k].returned = <<>>

\* C30 witness: a chotot page whose listings meet every other wish of an
\* intent with two bedrooms, and whose scrape returned the empty list.
C30_Witness ==
    \E k \in ChototScrapes :
        /\ se_intent[1].bedrooms = Some(2)
        /\ FilterListingsByIntent(ChototExtract(se_scrapes[k].items, se_intent[1]),
                                  [se_intent[1] EXCEPT !.bedrooms = None]) # <<>>
        /\ se_scrapes[k].returned = <<>>

=============================================================================
